---- MODULE Spec2Model ----
(***************************************************************************)
(* Model of IDAServerManager (src/start_ida_server.py): the pool of IDA    *)
(* worker processes keyed by port, the port reservation map, the pool      *)
(* lock, and the request handler of the control server with the calls it   *)
(* makes (_ensure_binary_loaded, _find_available_port, stop_ida_server,    *)
(* stop_all_servers).  The operating system is modelled by the table of    *)
(* launched worker processes, by the set of worker ports bound by foreign  *)
(* processes, by the files next to each target and by a clock.             *)
(*                                                                         *)
(* _ensure_binary_loaded calls itself in tail position (line 290) and the  *)
(* inner call never raises (line 325 catches everything), so the outer     *)
(* frame only hands the inner result on: the recursion is modelled as a    *)
(* jump back to the entry of the function, the outer frame's reservation   *)
(* staying in reserved_ports exactly as the code leaves it.                *)
(*                                                                         *)
(* Requests are handled by the single thread of the accept loop (start,    *)
(* lines 426-437).  _is_port_in_use is modelled by what it probes, a       *)
(* listener on the port; its socket.error branch is left out.              *)
(*                                                                         *)
(* Two further specifications share the variables: WorkerSpec, the accept  *)
(* loop of IDAAnalysisServer (src/ida_decompile_server.py) with the        *)
(* readiness handshake _wait_for_ida_server, and ClientSpec, the command   *)
(* line of IDAClientManager (src/ida_client_manager.py) against the        *)
(* accept loop of the control server.  Three more vary what Spec holds     *)
(* fixed: OverlapSpec starts the control server on any port, a worker port *)
(* included; PlatformSpec runs the manager on either platform (os.name);   *)
(* ConcSpec has handle_client_request called by two threads at once.       *)
(* ClockSpec follows the clock reading by reading; RejectSpec sends the    *)
(* handler actions it does not know; LoopSpec takes the accept loop of the *)
(* control server call by call, next to the atexit hook of app.py.         *)
(***************************************************************************)
EXTENDS Integers, Sequences, FiniteSets, TLC

\* ------------------------------------------------------------------ bounds
\* number of worker processes the operating system lets the manager launch;
\* once it is reached subprocess.Popen raises
MaxProcs == 2
\* number of times the clock advances
MaxTicks == 1
\* connections a worker has waiting or in service at a time
MaxPending == 2
\* rounds of the loop of _wait_for_ida_server that begin before its timeout
MaxTries == 2
\* connections the listening socket of the control server holds before accept
MaxQueued == 2
\* distinct values time.time() returns after the first, where the clock is
\* followed reading by reading
MaxReadings == 3

\* ------------------------------------------------------- program constants
IDA_SERVER_START_PORT == 7001
IDA_SERVER_PORT_SPAN == 99
max_processes == 2
\* the port of the control server unless another is given (start, line 407)
DefaultControlPort == 5000
RESERVATION_TTL == 60

\* the clock advances by one second more than the reservation TTL at a time
TickStep == RESERVATION_TTL + 1
MaxTime == MaxTicks * TickStep

Targets == {"A", "B", "C"}
\* the targets next to which an analysis database lies at the start
WithDatabase == {"A"}
NoPath == "none"
Actions == {"get_functions", "stop_server"}
Threads == {"srv"}
\* two callers of handle_client_request on one IDAServerManager: the accept
\* loop and a second thread
Callers == Threads \cup {"peer"}
NoThread == "nobody"
\* values standing for Python's None: no port of the range, no pid
NoPort == IDA_SERVER_START_PORT - 1
NoProc == Len(<<>>)
None == [port |-> NoPort, process |-> NoProc]
\* no response built yet, no request read yet, no exchange with a worker yet
NoResponse == [pending |-> TRUE]
NoRequest == [action |-> "hello", binary_path |-> NoPath]
NoForward == [port |-> NoPort, pid |-> NoProc, target |-> NoPath,
              request |-> NoRequest, reply |-> NoResponse, failure |-> "none"]

\* no connection in service at the control server
NoClient == [data |-> <<>>, live |-> FALSE]
\* IDAServerManager.start, lines 421-428: the listening socket of the control
\* server on port p, nothing waiting in its queue
ControlUp(p) == [running |-> TRUE, port |-> p, pc |-> "accept", backlog |-> <<>>,
                 client |-> NoClient]
\* IDAClientManager.__init__, lines 9-13, and the locals of its commands
NewClientManager == [pc |-> "idle", command |-> "none", server_running |-> FALSE,
                     probe |-> FALSE, sock |-> "none",
                     received |-> <<>>, response |-> NoResponse, ret |-> "pending"]

\* no connection closed yet
NoConnection == [owner |-> "nobody", state |-> "closed", chunks |-> <<>>, eof |-> FALSE,
                 data |-> <<>>, got |-> <<>>]

VARIABLES
    ida_processes,   \* self.ida_processes: insertion-ordered dict, as a sequence of entries
    reserved_ports,  \* self.reserved_ports: port -> reservation time
    lock,            \* self.lock: the thread holding it, or NoThread
    os_procs,        \* every worker process launched so far: [port, target, st]
    extBound,        \* worker ports on which a foreign process listens
    binExists,       \* os.path.exists(binary_path)
    idbExists,       \* os.path.exists(binary_path + ".i64")
    now,             \* time.time()
    os_name,         \* os.name: the platform the manager runs on
    pc,              \* position of each handler thread
    request,         \* the request being handled: [action, binary_path]
    port,            \* local `port` of _ensure_binary_loaded
    process,         \* local `process` / `ida_process`: pid and creation time
    use_idb,         \* local `use_idb`
    current_time,    \* local `current_time` of _find_available_port
    scan_i,          \* position of the scan loop in port_range
    stop_port,       \* argument of the running stop_ida_server
    stop_ports,      \* ports still to visit in stop_all_servers
    ret,             \* caller of the running stop_ida_server
    result,          \* value returned by the last _ensure_binary_loaded
    launches,        \* history: processes launched by the current client request
    reservations,    \* history: ports returned by reserve() in the current client request
    callPorts,       \* history: which ports reserve() returned in the current client request
    signals,         \* history: what the running stop_ida_server has sent to the worker
    entryAtStart,    \* history: the pool entry bound to the target when the request began
    obsFree,         \* history: the port returned by reserve() was probed free in that call
    renames,         \* history: databases renamed aside by the current client request
    released,        \* history: ports whose pool entry stop_ida_server has deleted
    recreated,       \* history: the database reappeared after a rename in the current request
    disturbed,       \* history: a termination ran, or a startup failed, since construction
    poolAtStart,     \* history: self.ida_processes when the current client request was read
    response,        \* local `response` of start: what goes back to the client
    forwarded,       \* history: the exchange _send_ida_request had for the current request
    worker,          \* an IDAAnalysisServer: its process, self.running, the locals of start
    connections,     \* connections made to the worker's port: waiting, in service, or closed and unread
    closed,          \* history: the connection the worker closed last
    handshake,       \* a call of _wait_for_ida_server for that worker
    client_manager,  \* an IDAClientManager and the command it runs
    control          \* the control server process and the connections made to its port

poolVars == <<ida_processes, reserved_ports, lock>>
osVars == <<os_procs, extBound, binExists, idbExists, now, os_name>>
locVars == <<request, port, process, use_idb, current_time, scan_i, stop_port, stop_ports, ret, result>>
histVars == <<launches, reservations, callPorts, signals, entryAtStart, obsFree, renames, released, recreated, disturbed>>
replyVars == <<poolAtStart, response, forwarded>>
workerVars == <<worker, connections, closed, handshake>>
clientVars == <<client_manager, control>>
peerVars == <<workerVars, clientVars>>
mainVars == <<poolVars, osVars, pc, locVars, histVars, replyVars>>
vars == <<poolVars, osVars, pc, locVars, histVars, replyVars, peerVars>>

\* ---------------------------------------------------------------- helpers
\* mutant: the range is one port longer than asked for
get_ida_server_ports_one_more(count) ==
    LET first == IDA_SERVER_START_PORT
        stop == IF first + count + 1 < first + IDA_SERVER_PORT_SPAN + 1
                THEN first + count + 1 ELSE first + IDA_SERVER_PORT_SPAN + 1
    IN [i \in 1..(stop - first) |-> first + i - 1]

\* config.get_ida_server_ports(count): the first `count` ports of the range
get_ida_server_ports(count) ==
    LET first == IDA_SERVER_START_PORT
        stop == IF first + count < first + IDA_SERVER_PORT_SPAN + 1
                THEN first + count ELSE first + IDA_SERVER_PORT_SPAN + 1
    IN [i \in 1..(stop - first) |-> first + i - 1]

PortRange == {get_ida_server_ports(max_processes)[i] :
                 i \in 1..Len(get_ida_server_ports(max_processes))}

PoolPorts == {ida_processes[i].port : i \in 1..Len(ida_processes)}

Alive(pid) == os_procs[pid].st # "dead"

\* an exited process: it holds no port and analyses no target any more
DeadProc == [port |-> NoPort, target |-> NoPath, st |-> "dead"]

\* the worker process listening on port p, if any (bind is exclusive)
Listeners(p) == {pid \in 1..Len(os_procs) :
                    os_procs[pid].port = p /\ os_procs[pid].st \in {"listening", "hung"}}

\* the control server listens on port p
ControlHolds(p) == control.running /\ control.port = p

\* a connect to the control server on port p succeeds: the queue of its
\* listening socket (listen(1), line 424) has room.  When the queue is full the
\* connect gets no answer and runs into the timeout of the caller.
ControlAnswers(p) == ControlHolds(p) /\ Len(control.backlog) < MaxQueued

\* some process holds port p: a bind to it fails
PortHeld(p) == Listeners(p) # {} \/ p \in extBound \/ ControlHolds(p)

\* IDAServerManager._is_port_in_use: a TCP connect to the port succeeds
\* within the timeout (connect_ex returns 0)
is_port_in_use(p) == Listeners(p) # {} \/ p \in extBound \/ ControlAnswers(p)

\* what a connect-and-close of this process leaves at the control server when
\* p is its port: a connection in the queue on which nothing was sent
ProbedAt(ctl, p) ==
    IF ControlAnswers(p)
    THEN [ctl EXCEPT !.backlog = Append(@, [data |-> <<>>, live |-> FALSE])]
    ELSE ctl

\* the rounds of _wait_for_ida_server (lines 187-210) against the control
\* port: connect after connect until the queue is full
Flooded(ctl, p) ==
    IF ControlHolds(p)
    THEN [ctl EXCEPT !.backlog = @ \o [i \in 1..(MaxQueued - Len(@)) |->
                                          [data |-> <<>>, live |-> FALSE]]]
    ELSE ctl

\* mutant: the port counts as ready as soon as a connect to it succeeds
HelloOk_connect(p) == is_port_in_use(p)

\* a hello sent to port p is answered {success: true, message: "hi"}
HelloOk(p) == \E pid \in Listeners(p) : os_procs[pid].st = "listening"

\* mutant: the assignment replaces the entries bound to the same target
DictSet_one_per_target(d, entry) ==
    Append(SelectSeq(d, LAMBDA e : e.binary_path # entry.binary_path /\ e.port # entry.port),
           entry)

\* dict assignment d[key] = entry: in place when the key exists, appended otherwise
DictSet(d, entry) ==
    IF \E i \in 1..Len(d) : d[i].port = entry.port
    THEN [i \in 1..Len(d) |-> IF d[i].port = entry.port THEN entry ELSE d[i]]
    ELSE Append(d, entry)

\* del d[key]
DictDel(d, p) == SelectSeq(d, LAMBDA e : e.port # p)

\* index of the pool entry stored under port p (0 when absent)
EntryAt(p) ==
    IF p \in PoolPorts
    THEN CHOOSE i \in 1..Len(ida_processes) : ida_processes[i].port = p
    ELSE 0

\* mutant: the loop returns after looking at the first entry only
get_process_for_binary_first_only(binary_path) ==
    IF Len(ida_processes) > 0 /\ ida_processes[1].binary_path = binary_path THEN 1 ELSE 0

\* mutant: the lookup never finds an entry
get_process_for_binary_never(binary_path) == 0

\* IDAServerManager._get_process_for_binary: first entry bound to the path
get_process_for_binary(binary_path) ==
    LET hits == {i \in 1..Len(ida_processes) : ida_processes[i].binary_path = binary_path}
    IN IF hits = {} THEN 0 ELSE CHOOSE i \in hits : \A j \in hits : i <= j

\* IDAServerManager._get_least_recently_used_process: min() keeps the first minimum
get_least_recently_used_process ==
    LET idx == 1..Len(ida_processes)
        mins == {i \in idx : \A j \in idx : ida_processes[i].last_used <= ida_processes[j].last_used}
    IN IF idx = {} THEN 0 ELSE CHOOSE i \in mins : \A j \in mins : i <= j

\* mutant: the reservation is left in the map
Unreserve_keep(r, p) == r

\* removal of a key from the reservation map
Unreserve(r, p) == [q \in (DOMAIN r) \ {p} |-> r[q]]

\* the purge at the head of _find_available_port
\* mutant: every reservation is deleted, whatever its age
PurgeExpired_all(r, t) == [q \in {} |-> 0]

\* lines 92-96: the reservations older than RESERVATION_TTL are deleted
PurgeExpired(r, t) == [q \in {x \in DOMAIN r : ~(t - r[x] > RESERVATION_TTL)} |-> r[q]]

\* mutant: the scan forgets the ports of the active workers
PortFree_ignoring_pool(p) == p \notin DOMAIN reserved_ports /\ ~is_port_in_use(p)

\* mutant: the scan does not probe the port at the OS level
PortFree_no_probe(p) == p \notin (PoolPorts \cup DOMAIN reserved_ports)

\* the scan's test for one port of the range
PortFree(p) == p \notin (PoolPorts \cup DOMAIN reserved_ports) /\ ~is_port_in_use(p)

EmptyMap == [q \in {} |-> 0]

\* mutant: the scan evicts as soon as the pool has a worker
AtCapacity_any == Len(ida_processes) >= 1

\* mutant: the pool counts as full one entry early
AtCapacity_one_short == Len(ida_processes) >= max_processes - 1

\* line 109: len(self.ida_processes) >= self.max_processes
AtCapacity == Len(ida_processes) >= max_processes

\* ------------------------------------------------------ JSON on the wire
\* A JSON text is modelled by its sequence of tokens, each a pair: the opening
\* brace, one <<key, value>> pair per member, the closing brace.  A text that
\* is no such sequence does not parse.
Open == <<"{", "">>
Close == <<"}", "">>
\* bytes that are no JSON text, and the empty byte string
Garbage == <<(<<"#", "">>)>>
NoData == <<>>
\* the order in which the members of the dictionaries of the protocol are built
KeyOrder == <<"action", "binary_path", "address", "success", "message", "error",
              "functions", "function">>

\* json.dumps of a dictionary
json_dumps(obj) ==
    LET keys == SelectSeq(KeyOrder, LAMBDA k : k \in DOMAIN obj)
    IN <<Open>> \o [i \in 1..Len(keys) |-> <<keys[i], obj[keys[i]]>>] \o <<Close>>

\* what json.loads raises on a text that does not parse
JSONDecodeError == [exception |-> "JSONDecodeError"]

\* a JSON text that is an array, and what json.loads makes of it: a list,
\* which is no dictionary
ArrayText == <<(<<"[]", "">>)>>
JsonArray == [array |-> TRUE]
IsDict(v) == "array" \notin DOMAIN v

\* json.loads: the dictionary of an object text (the last of two members of
\* one name wins), the list of an array text, JSONDecodeError otherwise
json_loads(text) ==
    LET inner == 2..(Len(text) - 1)
        wellFormed == /\ Len(text) >= 2
                      /\ text[1][1] = "{"
                      /\ text[Len(text)][1] = "}"
                      /\ \A i \in inner : text[i][1] \notin {"{", "}", "#"}
    IN IF wellFormed
       THEN [k \in {text[i][1] : i \in inner} |->
                text[CHOOSE i \in inner : text[i][1] = k
                                          /\ \A j \in inner : text[j][1] = k => j <= i][2]]
       ELSE IF text = ArrayText THEN JsonArray
       ELSE JSONDecodeError

\* dict.get(key): the value, or Python's None
Get(obj, key) == IF IsDict(obj) /\ key \in DOMAIN obj THEN obj[key] ELSE NoPath

\* --------------------------------------------------- the worker's answers
\* mutant: the worker answers hello with another message
handle_request_hey(request_data, target, fails) ==
    IF IsDict(request_data) /\ Get(request_data, "action") = "hello"
    THEN [success |-> TRUE, message |-> "hey"]
    ELSE [error |-> "unknown action"]

\* mutant: the failure of an IDA call is reported with an empty error string
handle_request_blank(request_data, target, fails) ==
    IF fails THEN [error |-> ""] ELSE [success |-> TRUE, functions |-> target]

\* IDAAnalysisServer.handle_request (ida_decompile_server.py, lines 110-134) in
\* a worker that analyses `target`; `fails` tells whether the IDA call it makes
\* fails (lines 41-51, 72-73, 92-93)
handle_request(request_data, target, fails) ==
    LET action == Get(request_data, "action")
    IN IF ~IsDict(request_data)
       THEN \* request_data.get raises AttributeError, caught at line 133
            [error |-> "request handling error"]
       ELSE IF action = "hello"
       THEN [success |-> TRUE, message |-> "hi"]
       ELSE IF action = "decompile_function"
       THEN IF Get(request_data, "address") = NoPath
            THEN \* int(None, 16) raises TypeError, caught at line 133
                 [error |-> "request handling error"]
            ELSE IF fails THEN [error |-> "decompilation failed"]
                 ELSE [success |-> TRUE, function |-> target]
       ELSE IF action = "get_functions"
       THEN IF fails THEN [error |-> "function list failed"]
            ELSE [success |-> TRUE, functions |-> target]
       ELSE IF action = "stop_server"
       THEN [success |-> TRUE, message |-> "stopping server"]
       ELSE [error |-> "unknown action"]

\* ------------------------------------------------------ _send_ida_request
\* what the socket of _send_ida_request meets (lines 121-143): the connection
\* is refused, no byte arrives within the timeout, or a byte string arrives
\* before the peer closes
Refused == [kind |-> "refused", text |-> NoData]
TimedOut == [kind |-> "timeout", text |-> NoData]
Received(text) == [kind |-> "data", text |-> text]

\* _send_ida_request, lines 145-161: the value returned for each outcome
send_ida_request(raw) ==
    IF raw.kind = "refused" THEN [error |-> "network error"]
    ELSE IF raw.kind = "timeout" THEN [error |-> "communication failed: receive timeout"]
    ELSE IF raw.text = NoData THEN [error |-> "server returned no data"]
    ELSE IF json_loads(raw.text) = JSONDecodeError THEN [error |-> "response parse failed"]
    ELSE json_loads(raw.text)

\* the connection-level failure _send_ida_request meets, "none" when it
\* returns what json.loads gave it (line 152)
FailureKind(raw) ==
    IF raw.kind = "refused" THEN "refused"
    ELSE IF raw.kind = "timeout" THEN "timeout"
    ELSE IF raw.text = NoData THEN "empty"
    ELSE IF json_loads(raw.text) = JSONDecodeError THEN "malformed"
    ELSE "none"

\* the exchanges _send_ida_request(p, req) can have, by what listens on p: a
\* serving worker reads the text and answers it (lines 160-196 of
\* ida_decompile_server.py), a hung worker answers nothing, a foreign process
\* answers nothing, bytes that are no JSON, or what a worker of another
\* manager would answer
Exchanges(p, req) ==
    LET text == json_dumps(req)
        byWorker == {[port |-> p, pid |-> pid, target |-> os_procs[pid].target,
                      request |-> json_loads(text),
                      reply |-> handle_request(json_loads(text), os_procs[pid].target, f),
                      raw |-> Received(json_dumps(
                                 handle_request(json_loads(text), os_procs[pid].target, f)))] :
                        pid \in {q \in Listeners(p) : os_procs[q].st = "listening"},
                        f \in BOOLEAN}
        away(raw) == [port |-> p, pid |-> NoProc, target |-> NoPath,
                      request |-> NoRequest, reply |-> NoResponse, raw |-> raw]
        byHung == IF \E q \in Listeners(p) : os_procs[q].st = "hung"
                  THEN {away(TimedOut)} ELSE {}
        byForeign == IF p \in extBound
                     THEN {away(Received(NoData)), away(Received(Garbage)),
                           away(Received(json_dumps(handle_request(json_loads(text),
                                                                   "elsewhere", FALSE))))}
                     ELSE {}
        byNobody == IF ~is_port_in_use(p) THEN {away(Refused)} ELSE {}
    IN byWorker \cup byHung \cup byForeign \cup byNobody

\* line 243: use_idb = os.path.exists(binary_path + ".i64")
IdbPresent(binary_path) == idbExists[binary_path]

\* ------------------------------------------------------------------- init
ManagerInit(callers) ==
    /\ ida_processes = <<>>
    /\ reserved_ports = EmptyMap
    /\ lock = NoThread
    /\ os_procs = <<>>
    /\ extBound = {}
    /\ binExists = [T \in Targets |-> TRUE]
    /\ idbExists = [T \in Targets |-> T \in WithDatabase]
    /\ now = 0
    /\ pc = [t \in callers |-> "idle"]
    /\ request = [t \in callers |-> NoRequest]
    /\ port = [t \in callers |-> NoPort]
    /\ process = [t \in callers |-> [pid |-> NoProc, last_used |-> 0]]
    /\ use_idb = [t \in callers |-> FALSE]
    /\ current_time = [t \in callers |-> 0]
    /\ scan_i = [t \in callers |-> 1]
    /\ stop_port = [t \in callers |-> NoPort]
    /\ stop_ports = [t \in callers |-> <<>>]
    /\ ret = [t \in callers |-> "stop_all"]
    /\ result = [t \in callers |-> None]
    /\ launches = [t \in callers |-> 0]
    /\ reservations = [t \in callers |-> 0]
    /\ callPorts = [t \in callers |-> {}]
    /\ signals = [t \in callers |-> <<>>]
    /\ entryAtStart = [t \in callers |-> None]
    /\ obsFree = [t \in callers |-> TRUE]
    /\ renames = [t \in callers |-> 0]
    /\ released = {}
    /\ recreated = [t \in callers |-> FALSE]
    /\ disturbed = FALSE
    /\ poolAtStart = [t \in callers |-> <<>>]
    /\ response = [t \in callers |-> NoResponse]
    /\ forwarded = [t \in callers |-> NoForward]
    /\ worker = [st |-> "starting", running |-> FALSE, pc |-> "accept", data |-> NoData,
                 request |-> NoRequest]
    /\ connections = <<>>
    /\ closed = NoConnection
    /\ handshake = [pc |-> "loop", tries |-> 0, test_response |-> NoResponse,
                    ret |-> "pending"]
    /\ client_manager = NewClientManager

\* the control server listens on its default port, outside the worker range
Init ==
    /\ ManagerInit(Threads)
    /\ os_name = "posix"
    /\ control = ControlUp(DefaultControlPort)

\* ------------------------------------------------- handle_client_request
\* handle_client_request, lines 377-393: the request with action a and path
\* bp is dispatched
Dispatch(t, a, bp) ==
    /\ request' = [request EXCEPT ![t] = [action |-> a, binary_path |-> bp]]
    /\ poolAtStart' = [poolAtStart EXCEPT ![t] = ida_processes]
    /\ IF a = "stop_server"
       THEN \* stop_all_servers: ports = list(self.ida_processes.keys())
            /\ pc' = [pc EXCEPT ![t] = "stop_all"]
            /\ stop_ports' = [stop_ports EXCEPT ![t] =
                                [i \in 1..Len(ida_processes) |-> ida_processes[i].port]]
            /\ UNCHANGED <<launches, reservations, callPorts, entryAtStart, obsFree, result>>
       ELSE IF bp = NoPath
       THEN \* {"error": ...}: _ensure_binary_loaded is not called
            /\ pc' = [pc EXCEPT ![t] = "respond"]
            /\ launches' = [launches EXCEPT ![t] = 0]
            /\ reservations' = [reservations EXCEPT ![t] = 0]
            /\ callPorts' = [callPorts EXCEPT ![t] = {}]
            /\ result' = [result EXCEPT ![t] = None]
            /\ UNCHANGED <<stop_ports, entryAtStart, obsFree>>
       ELSE /\ pc' = [pc EXCEPT ![t] = "ensure_check"]
            /\ launches' = [launches EXCEPT ![t] = 0]
            /\ reservations' = [reservations EXCEPT ![t] = 0]
            /\ callPorts' = [callPorts EXCEPT ![t] = {}]
            /\ obsFree' = [obsFree EXCEPT ![t] = TRUE]
            /\ result' = [result EXCEPT ![t] = None]
            /\ entryAtStart' = [entryAtStart EXCEPT ![t] =
                   LET bound == {i \in 1..Len(ida_processes) :
                                   ida_processes[i].binary_path = bp}
                   IN IF bound = {} THEN None
                      ELSE LET i == CHOOSE i \in bound : TRUE
                           IN [port |-> ida_processes[i].port,
                               process |-> ida_processes[i].process]]
            /\ UNCHANGED stop_ports
    /\ UNCHANGED <<poolVars, osVars, port, process, use_idb, current_time, scan_i,
                   stop_port, ret, signals, renames, released, recreated, disturbed>>
    /\ UNCHANGED <<response, forwarded, workerVars, client_manager>>

\* start, lines 429-435: a client connects while the loop waits in accept,
\* its request is read and dispatched
Request(t) ==
    /\ pc[t] = "idle"
    /\ control.backlog = <<>>
    /\ \E a \in Actions, bp \in Targets \cup {NoPath} : Dispatch(t, a, bp)
    /\ UNCHANGED control

\* start, lines 432-433 and 440-445: the bytes read are no JSON text, json.loads
\* raises and the handler answers with the text of the exception
RequestMalformed(t) ==
    /\ pc[t] = "idle"
    /\ control.backlog = <<>>
    /\ response' = [response EXCEPT ![t] = [error |-> "Expecting value"]]
    /\ pc' = [pc EXCEPT ![t] = "reply"]
    /\ UNCHANGED <<poolVars, osVars, locVars, histVars, poolAtStart, forwarded, peerVars>>

\* mutant: the fast path leaves the timestamp as it was
LastUsedOnHit_kept(last_used) == last_used

\* line 226: existing_process.last_used = time.time()
LastUsedOnHit(last_used) == now

\* _ensure_binary_loaded, lines 218-227: existence check and fast path
EnsureCheck(t) ==
    /\ pc[t] = "ensure_check"
    /\ LET bp == request[t].binary_path
           i == get_process_for_binary(bp)
       IN IF ~binExists[bp] /\ ~idbExists[bp]
          THEN /\ result' = [result EXCEPT ![t] = None]
               /\ pc' = [pc EXCEPT ![t] = "respond"]
               /\ UNCHANGED ida_processes
          ELSE IF i # 0
          THEN /\ ida_processes' = [ida_processes EXCEPT ![i].last_used = LastUsedOnHit(@)]
               /\ result' = [result EXCEPT ![t] =
                                [port |-> ida_processes[i].port,
                                 process |-> ida_processes[i].process]]
               /\ pc' = [pc EXCEPT ![t] = "respond"]
          ELSE /\ pc' = [pc EXCEPT ![t] = "reserve"]
               /\ UNCHANGED <<ida_processes, result>>
    /\ UNCHANGED <<reserved_ports, lock, osVars, request, port, process, use_idb,
                   current_time, scan_i, stop_port, stop_ports, ret, histVars>>
    /\ UNCHANGED <<replyVars, peerVars>>

\* _find_available_port, lines 87-99: take the lock, purge expired reservations
ReserveBegin(t) ==
    /\ pc[t] = "reserve"
    /\ lock = NoThread
    /\ lock' = t
    /\ current_time' = [current_time EXCEPT ![t] = now]
    /\ reserved_ports' = PurgeExpired(reserved_ports, now)
    /\ scan_i' = [scan_i EXCEPT ![t] = 1]
    /\ pc' = [pc EXCEPT ![t] = "scan"]
    /\ UNCHANGED <<ida_processes, osVars, request, port, process, use_idb,
                   stop_port, stop_ports, ret, result, histVars>>
    /\ UNCHANGED <<replyVars, peerVars>>

\* mutant: the lock stays with the caller when _find_available_port returns
LockAfterReserve_kept(t) == t

\* lines 87 and 106: `return port` leaves the `with self.lock` block
LockAfterReserve(t) == NoThread

\* _find_available_port, lines 101-116: one iteration of the scan, or what
\* follows the loop (eviction at capacity, RuntimeError otherwise)
ScanStep(t) ==
    /\ pc[t] = "scan"
    /\ LET port_range == get_ida_server_ports(max_processes)
       IN IF scan_i[t] <= Len(port_range)
          THEN LET p == port_range[scan_i[t]]
               IN IF PortFree(p)
                  THEN /\ reserved_ports' = (p :> current_time[t]) @@ reserved_ports
                       /\ port' = [port EXCEPT ![t] = p]
                       /\ obsFree' = [obsFree EXCEPT ![t] = ~is_port_in_use(p)]
                       /\ reservations' = [reservations EXCEPT ![t] = @ + 1]
                       /\ callPorts' = [callPorts EXCEPT ![t] = @ \cup {p}]
                       /\ lock' = LockAfterReserve(t)
                       /\ pc' = [pc EXCEPT ![t] = "launch"]
                       /\ scan_i' = [scan_i EXCEPT ![t] = 1]
                       /\ current_time' = [current_time EXCEPT ![t] = 0]
                       /\ UNCHANGED <<stop_port, ret, result>>
                  ELSE /\ scan_i' = [scan_i EXCEPT ![t] = @ + 1]
                       /\ UNCHANGED <<reserved_ports, port, obsFree, reservations, callPorts, lock,
                                      pc, stop_port, ret, result, current_time>>
          ELSE IF AtCapacity
          THEN \* self.stop_ida_server(lru_port), called with the lock held
               /\ stop_port' = [stop_port EXCEPT ![t] =
                                   ida_processes[get_least_recently_used_process].port]
               /\ ret' = [ret EXCEPT ![t] = "evict"]
               /\ pc' = [pc EXCEPT ![t] = "stop_acquire"]
               /\ UNCHANGED <<reserved_ports, port, obsFree, reservations, callPorts, lock, scan_i,
                              result, current_time>>
          ELSE \* RuntimeError, caught at line 232: return None
               /\ lock' = NoThread
               /\ result' = [result EXCEPT ![t] = None]
               /\ pc' = [pc EXCEPT ![t] = "respond"]
               /\ scan_i' = [scan_i EXCEPT ![t] = 1]
               /\ current_time' = [current_time EXCEPT ![t] = 0]
               /\ UNCHANGED <<reserved_ports, port, obsFree, reservations, callPorts, stop_port, ret>>
    /\ control' = LET port_range == get_ida_server_ports(max_processes)
                  IN IF /\ scan_i[t] <= Len(port_range)
                        /\ port_range[scan_i[t]] \notin (PoolPorts \cup DOMAIN reserved_ports)
                     THEN \* line 103: the port is probed
                          ProbedAt(control, port_range[scan_i[t]])
                     ELSE control
    /\ UNCHANGED <<ida_processes, osVars, request, process, use_idb,
                   stop_ports, launches, signals, entryAtStart, renames, released, recreated, disturbed>>
    /\ UNCHANGED <<replyVars, workerVars, client_manager>>

\* _ensure_binary_loaded, lines 236-273: subprocess.Popen and the IDAProcess object
Launch(t) ==
    /\ pc[t] = "launch"
    /\ use_idb' = [use_idb EXCEPT ![t] = IdbPresent(request[t].binary_path)]
    /\ \/ /\ Len(os_procs) < MaxProcs
          /\ os_procs' = Append(os_procs, [port |-> port[t],
                                           target |-> request[t].binary_path,
                                           st |-> "starting"])
          /\ process' = [process EXCEPT ![t] = [pid |-> Len(os_procs) + 1, last_used |-> now]]
          /\ launches' = [launches EXCEPT ![t] = @ + 1]
          /\ pc' = [pc EXCEPT ![t] = "probe"]
          /\ UNCHANGED disturbed
       \/ \* Popen raises OSError: handled at line 318
          /\ pc' = [pc EXCEPT ![t] = "cleanup_exc"]
          /\ disturbed' = TRUE
          /\ UNCHANGED <<os_procs, process, launches>>
    /\ UNCHANGED <<poolVars, extBound, binExists, os_name, idbExists, now, request, port,
                   current_time, scan_i, stop_port, stop_ports, ret, result,
                   reservations, callPorts, signals, entryAtStart, obsFree, renames, released,
                   recreated>>
    /\ UNCHANGED <<replyVars, peerVars>>

\* _wait_for_ida_server returns True: a hello to the port was answered "hi"
ProbeReady(t) ==
    /\ pc[t] = "probe"
    /\ HelloOk(port[t])
    /\ pc' = [pc EXCEPT ![t] = "promote"]
    /\ UNCHANGED <<poolVars, osVars, locVars, histVars>>
    /\ UNCHANGED <<replyVars, peerVars>>

\* _wait_for_ida_server returns False after its timeout (lines 276-278)
ProbeTimeout(t) ==
    /\ pc[t] = "probe"
    /\ ~HelloOk(port[t])
    /\ pc' = [pc EXCEPT ![t] = IF use_idb[t] THEN "quarantine" ELSE "kill_failed"]
    /\ disturbed' = TRUE
    /\ control' = Flooded(control, port[t])
    /\ UNCHANGED <<poolVars, osVars, locVars, launches, signals, reservations, callPorts, entryAtStart,
                   obsFree, renames, released, recreated>>
    /\ UNCHANGED <<replyVars, workerVars, client_manager>>

\* process.terminate(); process.wait(timeout=5) / process.kill()
Terminated(procs, pid) == [procs EXCEPT ![pid] = DeadProc]

\* mutant: the database is copied aside and stays in place
RenamedAside_copy(exists, binary_path) == exists

\* line 281: os.rename(idb_path, idb_path + ".bak") takes the database away
RenamedAside(exists, binary_path) == [exists EXCEPT ![binary_path] = FALSE]

\* lines 279-292: rename the database aside, end the process, call itself again
Quarantine(t) ==
    /\ pc[t] = "quarantine"
    /\ \/ \* the file is renamed; the process, while it is ended, may write
          \* its database back under the old name
          /\ idbExists[request[t].binary_path]
          /\ \E again \in BOOLEAN :
                /\ idbExists' = IF again THEN idbExists
                                 ELSE RenamedAside(idbExists, request[t].binary_path)
                /\ recreated' = [recreated EXCEPT ![t] = @ \/ again]
          /\ renames' = [renames EXCEPT ![t] = @ + 1]
          /\ os_procs' = Terminated(os_procs, process[t].pid)
          /\ pc' = [pc EXCEPT ![t] = "ensure_check"]
       \/ \* os.rename raises: line 291 logs it and falls through to line 294
          /\ pc' = [pc EXCEPT ![t] = "kill_failed"]
          /\ UNCHANGED <<idbExists, os_procs, recreated, renames>>
    /\ UNCHANGED <<poolVars, extBound, binExists, os_name, now, locVars,
                   launches, signals, reservations, callPorts, entryAtStart, obsFree, released, disturbed>>
    /\ UNCHANGED <<replyVars, peerVars>>

\* lines 294-306: end the process, drop the reservation under the lock, raise
KillFailed(t) ==
    /\ pc[t] = "kill_failed"
    /\ lock = NoThread
    /\ os_procs' = Terminated(os_procs, process[t].pid)
    /\ reserved_ports' = Unreserve(reserved_ports, port[t])
    /\ pc' = [pc EXCEPT ![t] = "cleanup_exc"]
    /\ UNCHANGED <<ida_processes, lock, extBound, binExists, os_name, idbExists, now, locVars, histVars>>
    /\ UNCHANGED <<replyVars, peerVars>>

\* lines 318-327: the handler drops the reservation again, the outer one returns None
CleanupExc(t) ==
    /\ pc[t] = "cleanup_exc"
    /\ lock = NoThread
    /\ reserved_ports' = Unreserve(reserved_ports, port[t])
    /\ result' = [result EXCEPT ![t] = None]
    /\ pc' = [pc EXCEPT ![t] = "respond"]
    /\ UNCHANGED <<ida_processes, lock, osVars, request, port, process, use_idb,
                   current_time, scan_i, stop_port, stop_ports, ret, histVars>>
    /\ UNCHANGED <<replyVars, peerVars>>

\* lines 308-316: store the worker under its port and clear the reservation
Promote(t) ==
    /\ pc[t] = "promote"
    /\ lock = NoThread
    /\ ida_processes' = DictSet(ida_processes,
                                [port |-> port[t], process |-> process[t].pid,
                                 binary_path |-> request[t].binary_path,
                                 last_used |-> process[t].last_used])
    /\ reserved_ports' = Unreserve(reserved_ports, port[t])
    /\ result' = [result EXCEPT ![t] = [port |-> port[t], process |-> process[t].pid]]
    /\ pc' = [pc EXCEPT ![t] = "respond"]
    /\ UNCHANGED <<lock, osVars, request, port, process, use_idb, current_time,
                   scan_i, stop_port, stop_ports, ret, histVars>>
    /\ UNCHANGED <<replyVars, peerVars>>

\* mutant: the request goes to the port of the first entry of the pool
ForwardPort_first(t) == ida_processes[1].port

\* line 400: ida_process.port of the entry _ensure_binary_loaded returned
ForwardPort(t) == result[t].port

\* handle_client_request, lines 383-402: the response is built; for the two
\* actions of line 398 it is what _send_ida_request returns
Reply(t) ==
    /\ pc[t] = "respond"
    /\ LET req == request[t]
       IN IF req.action = "stop_server"
          THEN /\ response' = [response EXCEPT ![t] =
                                  [success |-> TRUE, message |-> "all servers stopped"]]
               /\ UNCHANGED forwarded
          ELSE IF req.binary_path = NoPath
          THEN /\ response' = [response EXCEPT ![t] = [error |-> "binary path not given"]]
               /\ UNCHANGED forwarded
          ELSE IF result[t] = None
          THEN /\ response' = [response EXCEPT ![t] = [error |-> "cannot load the binary"]]
               /\ UNCHANGED forwarded
          ELSE IF req.action \in {"decompile_function", "get_functions"}
          THEN \E x \in Exchanges(ForwardPort(t), req) :
                  /\ forwarded' = [forwarded EXCEPT ![t] =
                                      [port |-> x.port, pid |-> x.pid, target |-> x.target,
                                       request |-> x.request, reply |-> x.reply,
                                       failure |-> FailureKind(x.raw)]]
                  /\ response' = [response EXCEPT ![t] = send_ida_request(x.raw)]
          ELSE /\ response' = [response EXCEPT ![t] = [error |-> "unknown action"]]
               /\ UNCHANGED forwarded
    /\ pc' = [pc EXCEPT ![t] = "reply"]
    /\ UNCHANGED <<poolVars, osVars, locVars, histVars, poolAtStart, peerVars>>

\* start, lines 436 and 448-451: the response is sent and the connection closed
Respond(t) ==
    /\ pc[t] = "reply"
    /\ pc' = [pc EXCEPT ![t] = "idle"]
    /\ request' = [request EXCEPT ![t] = NoRequest]
    /\ port' = [port EXCEPT ![t] = NoPort]
    /\ process' = [process EXCEPT ![t] = [pid |-> NoProc, last_used |-> 0]]
    /\ use_idb' = [use_idb EXCEPT ![t] = FALSE]
    /\ current_time' = [current_time EXCEPT ![t] = 0]
    /\ scan_i' = [scan_i EXCEPT ![t] = 1]
    /\ result' = [result EXCEPT ![t] = None]
    /\ launches' = [launches EXCEPT ![t] = 0]
    /\ reservations' = [reservations EXCEPT ![t] = 0]
    /\ callPorts' = [callPorts EXCEPT ![t] = {}]
    /\ entryAtStart' = [entryAtStart EXCEPT ![t] = None]
    /\ obsFree' = [obsFree EXCEPT ![t] = TRUE]
    /\ recreated' = [recreated EXCEPT ![t] = FALSE]
    /\ renames' = [renames EXCEPT ![t] = 0]
    /\ stop_port' = [stop_port EXCEPT ![t] = NoPort]
    /\ ret' = [ret EXCEPT ![t] = "stop_all"]
    /\ poolAtStart' = [poolAtStart EXCEPT ![t] = <<>>]
    /\ response' = [response EXCEPT ![t] = NoResponse]
    /\ forwarded' = [forwarded EXCEPT ![t] = NoForward]
    /\ UNCHANGED <<poolVars, osVars, stop_ports, signals, released, disturbed, peerVars>>

\* ------------------------------------------------------- stop_ida_server
\* stop_all_servers, lines 373-375: next port of the snapshot, or the reply
StopAll(t) ==
    /\ pc[t] = "stop_all"
    /\ IF stop_ports[t] = <<>>
       THEN /\ pc' = [pc EXCEPT ![t] = "respond"]
            /\ UNCHANGED <<stop_port, stop_ports, ret>>
       ELSE /\ stop_port' = [stop_port EXCEPT ![t] = Head(stop_ports[t])]
            /\ stop_ports' = [stop_ports EXCEPT ![t] = Tail(@)]
            /\ ret' = [ret EXCEPT ![t] = "stop_all"]
            /\ pc' = [pc EXCEPT ![t] = "stop_acquire"]
    /\ UNCHANGED <<poolVars, osVars, request, port, process, use_idb, current_time,
                   scan_i, result, histVars>>
    /\ UNCHANGED <<replyVars, peerVars>>

\* where stop_ida_server returns to: the loop of stop_all_servers, or line 112
\* of _find_available_port, which reserves the evicted port and returns it
StopReturn(t) ==
    IF ret[t] = "evict"
    THEN /\ reserved_ports' = (stop_port[t] :> current_time[t]) @@ reserved_ports
         /\ port' = [port EXCEPT ![t] = stop_port[t]]
         /\ obsFree' = [obsFree EXCEPT ![t] = FALSE]
         /\ reservations' = [reservations EXCEPT ![t] = @ + 1]
         /\ callPorts' = [callPorts EXCEPT ![t] = @ \cup {stop_port[t]}]
         /\ pc' = [pc EXCEPT ![t] = "launch"]
    ELSE /\ pc' = [pc EXCEPT ![t] = "stop_all"]
         /\ UNCHANGED <<reserved_ports, port, obsFree, reservations, callPorts>>

\* stop_ida_server, lines 331-333: `with self.lock`, then the membership test
StopAcquire(t) ==
    /\ pc[t] = "stop_acquire"
    /\ lock = NoThread
    /\ IF stop_port[t] \in PoolPorts
       THEN /\ lock' = t
            /\ pc' = [pc EXCEPT ![t] = "stop_graceful"]
            /\ UNCHANGED <<reserved_ports, port, obsFree, reservations, callPorts>>
       ELSE /\ lock' = NoThread
            /\ StopReturn(t)
    /\ disturbed' = TRUE
    /\ UNCHANGED <<ida_processes, osVars, request, process, use_idb, current_time,
                   scan_i, stop_port, stop_ports, ret, result, launches, signals, entryAtStart,
                   renames, released, recreated>>
    /\ UNCHANGED <<replyVars, peerVars>>

\* lines 337-343: stop_server is sent to the port; a worker that answers it exits
StopGraceful(t) ==
    /\ pc[t] = "stop_graceful"
    /\ os_procs' = [pid \in 1..Len(os_procs) |->
                      IF os_procs[pid].port = stop_port[t] /\ os_procs[pid].st = "listening"
                      THEN DeadProc
                      ELSE os_procs[pid]]
    /\ signals' = [signals EXCEPT ![t] = <<"stop_server">>]
    /\ pc' = [pc EXCEPT ![t] = "stop_escalate"]
    /\ UNCHANGED <<poolVars, extBound, binExists, os_name, idbExists, now, locVars>>
    /\ UNCHANGED <<launches, reservations, callPorts, entryAtStart, obsFree, renames,
                   released, recreated, disturbed>>
    /\ UNCHANGED <<replyVars, peerVars>>

\* lines 348-356: what is sent to a process found running. Off Windows:
\* SIGTERM, and SIGKILL when wait(timeout=5) expires; on Windows: taskkill /F
Escalation(name, exits_on_term) ==
    IF name # "nt"
    THEN IF exits_on_term THEN <<"SIGTERM">> ELSE <<"SIGTERM", "SIGKILL">>
    ELSE <<"taskkill /F">>

\* lines 345-356: poll(), and the escalation when the process still runs
StopEscalate(t) ==
    /\ pc[t] = "stop_escalate"
    /\ LET pid == ida_processes[EntryAt(stop_port[t])].process
       IN IF Alive(pid)
          THEN \/ \* the process ends on the first signal, or on the one that follows
                  \E exits_on_term \in BOOLEAN :
                     /\ signals' = [signals EXCEPT ![t] =
                                        @ \o Escalation(os_name, exits_on_term)]
                     /\ os_procs' = Terminated(os_procs, pid)
                     /\ pc' = [pc EXCEPT ![t] = "stop_release"]
               \/ \* os.kill raises: handled at line 366
                  /\ pc' = [pc EXCEPT ![t] = "stop_error"]
                  /\ UNCHANGED <<os_procs, signals>>
          ELSE /\ pc' = [pc EXCEPT ![t] = "stop_release"]
               /\ UNCHANGED <<os_procs, signals>>
    /\ UNCHANGED <<poolVars, extBound, binExists, os_name, idbExists, now, locVars>>
    /\ UNCHANGED <<launches, reservations, callPorts, entryAtStart, obsFree, renames,
                   released, recreated, disturbed>>
    /\ UNCHANGED <<replyVars, peerVars>>

\* lines 358-364: wait for the port (force-release on timeout), delete the entry.
\* _wait_for_port_release only reads the state of the port, and the commands of
\* _force_release_port (lines 80-81) end no process that holds it, so neither
\* changes the state.
StopRelease(t) ==
    /\ pc[t] = "stop_release"
    /\ ida_processes' = DictDel(ida_processes, stop_port[t])
    /\ released' = released \cup {stop_port[t]}
    /\ lock' = NoThread
    /\ StopReturn(t)
    /\ signals' = [signals EXCEPT ![t] = <<>>]
    /\ UNCHANGED <<osVars, request, process, use_idb, current_time, scan_i,
                   stop_port, stop_ports, ret, result, launches, entryAtStart,
                   renames, recreated, disturbed>>
    /\ UNCHANGED <<replyVars, peerVars>>

\* lines 366-369: the handler force-releases the port; the entry stays
StopError(t) ==
    /\ pc[t] = "stop_error"
    /\ lock' = NoThread
    /\ StopReturn(t)
    /\ signals' = [signals EXCEPT ![t] = <<>>]
    /\ UNCHANGED <<ida_processes, osVars, request, process, use_idb, current_time, scan_i,
                   stop_port, stop_ports, ret, result, launches, entryAtStart,
                   renames, released, recreated, disturbed>>
    /\ UNCHANGED <<replyVars, peerVars>>

\* ------------------------------------------------------------ environment
\* ida_decompile_server.py, lines 141-148: the worker binds its port and serves
WorkerBind(pid) ==
    /\ os_procs[pid].st = "starting"
    /\ ~PortHeld(os_procs[pid].port)
    /\ os_procs' = [os_procs EXCEPT ![pid].st = "listening"]
    /\ UNCHANGED <<poolVars, extBound, binExists, os_name, idbExists, now, pc, locVars, histVars>>
    /\ UNCHANGED <<replyVars, peerVars>>

\* a serving worker stops answering (it still holds its port)
WorkerHang(pid) ==
    /\ os_procs[pid].st = "listening"
    /\ os_procs' = [os_procs EXCEPT ![pid].st = "hung"]
    /\ UNCHANGED <<poolVars, extBound, binExists, os_name, idbExists, now, pc, locVars, histVars>>
    /\ UNCHANGED <<replyVars, peerVars>>

\* a worker that has bound its port exits on its own (a worker that exits
\* before it binds looks to the manager like one that never binds)
WorkerExit(pid) ==
    /\ os_procs[pid].st \in {"listening", "hung"}
    /\ os_procs' = [os_procs EXCEPT ![pid] = DeadProc]
    /\ UNCHANGED <<poolVars, extBound, binExists, os_name, idbExists, now, pc, locVars, histVars>>
    /\ UNCHANGED <<replyVars, peerVars>>

\* a process that is not a worker of this manager binds or leaves a worker port
ExtBind(p) ==
    /\ p \notin extBound
    /\ ~PortHeld(p)
    /\ extBound' = extBound \cup {p}
    /\ UNCHANGED <<poolVars, os_procs, binExists, os_name, idbExists, now, pc, locVars, histVars>>
    /\ UNCHANGED <<replyVars, peerVars>>

ExtRelease(p) ==
    /\ p \in extBound
    /\ extBound' = extBound \ {p}
    /\ UNCHANGED <<poolVars, os_procs, binExists, os_name, idbExists, now, pc, locVars, histVars>>
    /\ UNCHANGED <<replyVars, peerVars>>

\* time passes
Tick ==
    /\ now + TickStep <= MaxTime
    /\ now' = now + TickStep
    /\ UNCHANGED <<poolVars, os_procs, extBound, binExists, os_name, idbExists, pc, locVars, histVars>>
    /\ UNCHANGED <<replyVars, peerVars>>

\* ------------------------------------------------------------------- spec
ThreadStep(t) ==
    \/ Request(t)
    \/ RequestMalformed(t)
    \/ EnsureCheck(t)
    \/ ReserveBegin(t)
    \/ ScanStep(t)
    \/ Launch(t)
    \/ ProbeReady(t)
    \/ ProbeTimeout(t)
    \/ Quarantine(t)
    \/ KillFailed(t)
    \/ CleanupExc(t)
    \/ Promote(t)
    \/ Reply(t)
    \/ Respond(t)
    \/ StopAll(t)
    \/ StopAcquire(t)
    \/ StopGraceful(t)
    \/ StopEscalate(t)
    \/ StopRelease(t)
    \/ StopError(t)

EnvStep ==
    \/ \E pid \in 1..Len(os_procs) : WorkerBind(pid)
    \/ \E pid \in 1..Len(os_procs) : WorkerHang(pid)
    \/ \E pid \in 1..Len(os_procs) : WorkerExit(pid)
    \/ \E p \in PortRange : ExtBind(p)
    \/ \E p \in PortRange : ExtRelease(p)
    \/ Tick

Next == (\E t \in Threads : ThreadStep(t)) \/ EnvStep

Spec == Init /\ [][Next]_vars

\* the handler thread is scheduled as long as it can take a step
FairSpec == Spec /\ \A t \in Threads : WF_vars(ThreadStep(t))

TypeOK ==
    /\ lock \in DOMAIN pc \cup {NoThread}
    /\ PoolPorts \subseteq PortRange
    /\ now \in 0..MaxTime

\* ---------------------------------------------------- either platform
\* The manager on either platform: os.name is fixed when the process starts
\* and selects the branch of stop_ida_server, lines 348-356. Workers bind
\* their ports or stop answering; nothing else interferes.
PlatformInit ==
    /\ ManagerInit(Threads)
    /\ os_name \in {"posix", "nt"}
    /\ control = ControlUp(DefaultControlPort)

PlatformNext ==
    \/ \E t \in Threads : ThreadStep(t)
    \/ \E pid \in 1..Len(os_procs) : WorkerBind(pid)
    \/ \E pid \in 1..Len(os_procs) : WorkerHang(pid)

PlatformSpec == PlatformInit /\ [][PlatformNext]_vars

\* ------------------------------------------------------- two callers
\* handle_client_request called by two threads on one manager: the methods
\* share self.ida_processes and self.reserved_ports under self.lock, and each
\* step of a call may fall between any two steps of the other. The calls
\* overlap within the life of a reservation, and workers bind their ports.
ConcTargets == {"A", "B"}

\* handle_client_request, lines 377-393, called for a request that names a target
Call(t) ==
    /\ pc[t] = "idle"
    /\ \E bp \in ConcTargets : Dispatch(t, "get_functions", bp)
    /\ UNCHANGED control

ConcStep(t) ==
    \/ Call(t)
    \/ EnsureCheck(t)
    \/ ReserveBegin(t)
    \/ ScanStep(t)
    \/ Launch(t)
    \/ ProbeReady(t)
    \/ ProbeTimeout(t)
    \/ Quarantine(t)
    \/ KillFailed(t)
    \/ CleanupExc(t)
    \/ Promote(t)
    \/ Reply(t)
    \/ Respond(t)

ConcNext ==
    \/ \E t \in Callers : ConcStep(t)
    \/ \E pid \in 1..Len(os_procs) : WorkerBind(pid)

ConcInit ==
    /\ ManagerInit(Callers)
    /\ os_name = "posix"
    /\ control = ControlUp(DefaultControlPort)

ConcSpec == ConcInit /\ [][ConcNext]_vars

\* --------------------------------------- a control port in the worker range
\* The control server started on any port (start_ida_server.py -p), one of the
\* worker ports included, and the queue of its listening socket: clients
\* connect while a request is being handled, and the probes the handler makes
\* of its own port stay in the queue until the loop accepts them.
ControlPorts == PortRange \cup {DefaultControlPort}

\* what a client of the control server sends
ClientRequest == [action |-> "get_functions", binary_path |-> "B"]

OverlapInit ==
    /\ ManagerInit(Threads)
    /\ os_name = "posix"
    /\ \E p \in ControlPorts : control = ControlUp(p)

\* a client connects to the control port and sends its request
ClientArrives ==
    /\ ControlAnswers(control.port)
    /\ control' = [control EXCEPT
                      !.backlog = Append(@, [data |-> json_dumps(ClientRequest),
                                             live |-> TRUE])]
    /\ UNCHANGED <<mainVars, workerVars, client_manager>>

\* start, lines 429-445: accept takes the first connection of the queue; its
\* bytes are dispatched, or are no JSON text (a connection closed without a
\* byte gives the empty string)
AcceptQueued(t) ==
    /\ pc[t] = "idle"
    /\ control.backlog # <<>>
    /\ control' = [control EXCEPT !.backlog = Tail(@)]
    /\ LET req == json_loads(Head(control.backlog).data)
       IN IF req = JSONDecodeError
          THEN /\ response' = [response EXCEPT ![t] = [error |-> "Expecting value"]]
               /\ pc' = [pc EXCEPT ![t] = "reply"]
               /\ UNCHANGED <<poolVars, osVars, locVars, histVars, poolAtStart, forwarded,
                              workerVars, client_manager>>
          ELSE Dispatch(t, Get(req, "action"), Get(req, "binary_path"))

OverlapNext ==
    \/ \E t \in Threads : ThreadStep(t)
    \/ \E t \in Threads : AcceptQueued(t)
    \/ ClientArrives
    \/ \E pid \in 1..Len(os_procs) : WorkerBind(pid)
    \/ \E pid \in 1..Len(os_procs) : WorkerHang(pid)

\* the handler of a control server whose port may lie in the worker range
OverlapSpec == OverlapInit /\ [][OverlapNext]_vars

\* ------------------------------------------------- a clock that moves on
\* Spec lets any number of steps read the same time.  Here every reading of
\* time.time() that becomes a last_used timestamp (lines 18 and 226) is later
\* than the timestamps already in the pool: the handler takes such a reading
\* once per request, after at least one exchange with a client or a worker.
ClockFresh == \A i \in 1..Len(ida_processes) : ida_processes[i].last_used < now

\* the clock moves on by one unit
ClockAdvance ==
    /\ now < MaxReadings
    /\ now' = now + 1
    /\ UNCHANGED <<poolVars, os_procs, extBound, binExists, os_name, idbExists, pc, locVars,
                   histVars>>
    /\ UNCHANGED <<replyVars, peerVars>>

ClockStep(t) ==
    /\ pc[t] \in {"ensure_check", "launch"} => ClockFresh
    /\ ThreadStep(t)

ClockNext ==
    \/ \E t \in Threads : ClockStep(t)
    \/ \E pid \in 1..Len(os_procs) : WorkerBind(pid)
    \/ ClockAdvance

ClockSpec == Init /\ [][ClockNext]_vars

\* ------------------------------------------- requests the handler rejects
\* an action that is none of those handle_client_request knows (lines 383, 398)
OtherAction == "list_strings"

\* start, lines 429-435: a request with such an action is read and dispatched
RequestOther(t) ==
    /\ pc[t] = "idle"
    /\ control.backlog = <<>>
    /\ \E bp \in Targets \cup {NoPath} : Dispatch(t, OtherAction, bp)
    /\ UNCHANGED control

RejectNext ==
    \/ \E t \in Threads : ThreadStep(t)
    \/ \E t \in Threads : RequestOther(t)
    \/ \E pid \in 1..Len(os_procs) : WorkerBind(pid)
    \/ \E pid \in 1..Len(os_procs) : WorkerHang(pid)

\* the handler of Spec, sent requests of any action
RejectSpec == Init /\ [][RejectNext]_vars

\* ------------------------------------------- the accept loop step by step
\* IDAServerManager.start, lines 426-462, one step per call that can block,
\* with the manager started the way app.py starts it (lines 70-78): the loop
\* runs in a thread ("srv") and the atexit hook cleanup (app.py, lines 95-106)
\* runs in the main thread ("peer").  `control.running` is self.running and
\* `control.pc` is where the loop stands: in accept, in recv on the connection
\* `control.client`, in the handler, in the finally block of line 455, or past
\* it with the listening socket closed.
StopRequest == [action |-> "stop_server"]

\* what a client of the control server does with its connection: it sends a
\* request, sends bytes that are no JSON or a JSON array, closes without a
\* byte, or sends nothing and stays connected
LoopClients ==
    {[data |-> json_dumps(ClientRequest), live |-> TRUE],
     [data |-> json_dumps(StopRequest), live |-> TRUE],
     [data |-> Garbage, live |-> TRUE],
     [data |-> ArrayText, live |-> TRUE],
     [data |-> NoData, live |-> FALSE],
     [data |-> NoData, live |-> TRUE]}

LoopInit ==
    /\ ManagerInit(Callers)
    /\ os_name = "posix"
    /\ control = ControlUp(DefaultControlPort)

ClientConnects(c) ==
    /\ control.pc # "closed"
    /\ Len(control.backlog) < MaxQueued
    /\ control' = [control EXCEPT !.backlog = Append(@, c)]
    /\ UNCHANGED <<mainVars, workerVars, client_manager>>

\* the client of the connection in service closes it without having sent a byte
ClientCloses ==
    /\ control.pc = "recv"
    /\ control.client.live /\ control.client.data = NoData
    /\ control' = [control EXCEPT !.client.live = FALSE]
    /\ UNCHANGED <<mainVars, workerVars, client_manager>>

\* lines 426-429: the test of self.running, and accept returning a connection
\* (when accept times out, line 438 goes back to the test)
LoopAccept ==
    /\ control.pc = "accept"
    /\ control.running
    /\ control.backlog # <<>>
    /\ control' = [control EXCEPT !.pc = "recv", !.client = Head(control.backlog),
                                  !.backlog = Tail(control.backlog)]
    /\ UNCHANGED <<mainVars, workerVars, client_manager>>

\* mutant: the handler of line 440 ends the loop
OnLoopException_stop(ctl) == [ctl EXCEPT !.running = FALSE]

\* lines 440-447: `except Exception` reports the error; self.running is as it was
OnLoopException(ctl) == ctl

\* lines 432-435: client.recv(4096) returns once bytes have arrived or the
\* client has closed (the accepted socket has no timeout); json.loads; the
\* call of handle_client_request, whose handler (lines 404-405) answers a
\* request that is no dictionary
LoopRecv(t) ==
    /\ control.pc = "recv"
    /\ pc[t] = "idle"
    /\ control.client.data # NoData \/ ~control.client.live
    /\ LET req == json_loads(control.client.data)
       IN IF req = JSONDecodeError
          THEN /\ response' = [response EXCEPT ![t] = [error |-> "Expecting value"]]
               /\ pc' = [pc EXCEPT ![t] = "reply"]
               /\ control' = OnLoopException([control EXCEPT !.pc = "handle"])
               /\ UNCHANGED <<poolVars, osVars, locVars, histVars, poolAtStart, forwarded,
                              workerVars, client_manager>>
          ELSE IF ~IsDict(req)
          THEN /\ response' = [response EXCEPT ![t] = [error |-> "request handling failed"]]
               /\ pc' = [pc EXCEPT ![t] = "reply"]
               /\ control' = [control EXCEPT !.pc = "handle"]
               /\ UNCHANGED <<poolVars, osVars, locVars, histVars, poolAtStart, forwarded,
                              workerVars, client_manager>>
          ELSE /\ Dispatch(t, Get(req, "action"), Get(req, "binary_path"))
               /\ control' = [control EXCEPT !.pc = "handle"]

\* stop_all_servers and the calls of stop_ida_server it makes
StopStep(t) ==
    \/ StopAll(t)
    \/ StopAcquire(t)
    \/ StopGraceful(t)
    \/ StopEscalate(t)
    \/ StopRelease(t)
    \/ StopError(t)

\* line 435-436: handle_client_request runs and the response is sent
LoopHandle(t) ==
    /\ control.pc = "handle"
    /\ \/ EnsureCheck(t)
       \/ ReserveBegin(t)
       \/ ScanStep(t)
       \/ Launch(t)
       \/ ProbeReady(t)
       \/ ProbeTimeout(t)
       \/ Quarantine(t)
       \/ KillFailed(t)
       \/ CleanupExc(t)
       \/ Promote(t)
       \/ Reply(t)
       \/ Respond(t)
       \/ StopStep(t)

\* lines 448-453: client.close(), and back to the test of line 426
LoopClose(t) ==
    /\ control.pc = "handle"
    /\ pc[t] = "idle"
    /\ control' = [control EXCEPT !.pc = "accept", !.client = NoClient]
    /\ UNCHANGED <<mainVars, workerVars, client_manager>>

\* lines 426 and 455-456: self.running is found cleared, the loop ends and the
\* finally block calls stop_all_servers
LoopExit(t) ==
    /\ control.pc = "accept"
    /\ ~control.running
    /\ pc[t] = "idle"
    /\ control' = [control EXCEPT !.pc = "finally"]
    /\ pc' = [pc EXCEPT ![t] = "stop_all"]
    /\ stop_ports' = [stop_ports EXCEPT ![t] =
                         [i \in 1..Len(ida_processes) |-> ida_processes[i].port]]
    /\ UNCHANGED <<poolVars, osVars, request, port, process, use_idb, current_time, scan_i,
                   stop_port, ret, result, histVars>>
    /\ UNCHANGED <<replyVars, workerVars, client_manager>>

\* line 456: stop_all_servers in the finally block
LoopFinally(t) ==
    /\ control.pc = "finally"
    /\ StopStep(t)

\* lines 457-462: self.server_socket.close()
LoopShut(t) ==
    /\ control.pc = "finally"
    /\ pc[t] = "respond"
    /\ control' = [control EXCEPT !.pc = "closed", !.backlog = <<>>]
    /\ pc' = [pc EXCEPT ![t] = "idle"]
    /\ UNCHANGED <<poolVars, osVars, locVars, histVars>>
    /\ UNCHANGED <<replyVars, workerVars, client_manager>>

LoopStep(t) ==
    \/ LoopAccept
    \/ LoopRecv(t)
    \/ LoopHandle(t)
    \/ LoopClose(t)
    \/ LoopExit(t)
    \/ LoopFinally(t)
    \/ LoopShut(t)

\* app.py, lines 98-102: cleanup calls ida_manager.stop_all_servers()
CleanupBegin(u) ==
    /\ pc[u] = "idle"
    /\ pc' = [pc EXCEPT ![u] = "stop_all"]
    /\ stop_ports' = [stop_ports EXCEPT ![u] =
                         [i \in 1..Len(ida_processes) |-> ida_processes[i].port]]
    /\ UNCHANGED <<poolVars, osVars, request, port, process, use_idb, current_time, scan_i,
                   stop_port, ret, result, histVars>>
    /\ UNCHANGED <<replyVars, peerVars>>

\* app.py, line 103: ida_manager.running = False
CleanupEnd(u) ==
    /\ pc[u] = "respond"
    /\ pc' = [pc EXCEPT ![u] = "done"]
    /\ control' = [control EXCEPT !.running = FALSE]
    /\ UNCHANGED <<poolVars, osVars, locVars, histVars>>
    /\ UNCHANGED <<replyVars, workerVars, client_manager>>

cleanup(u) ==
    \/ CleanupBegin(u)
    \/ StopStep(u)
    \/ CleanupEnd(u)

LoopNext ==
    \/ LoopStep("srv")
    \/ cleanup("peer")
    \/ \E c \in LoopClients : ClientConnects(c)
    \/ ClientCloses
    \/ \E pid \in 1..Len(os_procs) : WorkerBind(pid)
    \/ \E pid \in 1..Len(os_procs) : WorkerHang(pid)

\* both threads are scheduled as long as they can take a step; no client is
\* bound to send or to close
LoopSpec ==
    /\ LoopInit
    /\ [][LoopNext]_vars
    /\ WF_vars(LoopStep("srv"))
    /\ WF_vars(cleanup("peer"))

\* ------------------------------------------- the worker's accept loop
\* IDAAnalysisServer.start (ida_decompile_server.py, lines 136-235) serving
\* the connections made to its port, by _wait_for_ida_server and by other
\* clients.  A connection is what its client sends, chunk by chunk (`chunks`),
\* whether the client then closes its sending side (`eof`) or stays silent,
\* and the responses the worker has sent on it (`got`).
Newline == <<"LF", "">>
\* an object text whose closing brace has not been sent
IncompleteText == <<Open, <<"action", "hello">> >>
HelloText == json_dumps([action |-> "hello"])

\* what reaches the worker: nothing at all (a connect followed by a close),
\* a request in one chunk or in two, a request cut short, bytes that are no
\* JSON, a JSON array
WorkerRequests ==
    {[action |-> "hello"], [action |-> "get_functions", binary_path |-> "A"],
     [action |-> "decompile_function"], [action |-> "stop_server"]}
ClientInputs ==
    {[chunks |-> <<json_dumps(r)>>, eof |-> FALSE] : r \in WorkerRequests}
    \cup {[chunks |-> <<IncompleteText, <<Close>> >>, eof |-> FALSE],
          [chunks |-> <<IncompleteText>>, eof |-> FALSE],
          [chunks |-> <<IncompleteText>>, eof |-> TRUE],
          [chunks |-> <<Garbage \o <<Newline>> >>, eof |-> FALSE],
          [chunks |-> <<ArrayText \o <<Newline>> >>, eof |-> FALSE]}

Connect(owner, input) ==
    [owner |-> owner, state |-> "queued", chunks |-> input.chunks, eof |-> input.eof,
     data |-> NoData, got |-> <<>>]

\* line 166: b'\n' in chunk or b'}' in chunk
HasTerminator(chunk) == \E i \in 1..Len(chunk) : chunk[i][1] \in {"}", "LF"}

\* str.strip(): leading and trailing white space goes
Strip(text) ==
    LET keep == {i \in 1..Len(text) : text[i][1] # "LF"}
    IN IF keep = {} THEN <<>>
       ELSE SubSeq(text, CHOOSE i \in keep : \A j \in keep : i <= j,
                         CHOOSE i \in keep : \A j \in keep : j <= i)

\* the connect of a client: it succeeds when the worker listens and the
\* queue of the listening socket (listen(1), line 144) has room
CanConnect == worker.st = "listening" /\ Len(connections) < MaxPending

\* index of the connection the worker serves, or serves next: the oldest one
\* it has not closed
Current ==
    LET live == {i \in 1..Len(connections) : connections[i].state # "closed"}
    IN IF live = {} THEN 0 ELSE CHOOSE i \in live : \A j \in live : i <= j

\* client.send(...) of a response on the connection in service
Sent(conns, r) == [conns EXCEPT ![Current].got = Append(@, json_dumps(r))]

\* lines 221-226: client.close(); a connection of _send_ida_request stays
\* until its owner has read it, any other is forgotten
CloseClient(conns) ==
    IF conns[Current].owner = "hello"
    THEN [conns EXCEPT ![Current].state = "closed", ![Current].data = worker.data]
    ELSE SelectSeq([conns EXCEPT ![Current].owner = "dropped"],
                   LAMBDA c : c.owner # "dropped")

\* the record of the connection that is being closed
Closing(conns) ==
    [conns[Current] EXCEPT !.state = "closed", !.data = worker.data]

\* lines 141-148: bind, listen, self.running = True
WorkerStart ==
    /\ worker.st = "starting"
    /\ worker' = [worker EXCEPT !.st = "listening", !.running = TRUE]
    /\ UNCHANGED <<mainVars, clientVars, connections, closed, handshake>>

\* another client connects and sends
ClientConnect ==
    /\ CanConnect
    /\ \E input \in ClientInputs :
          connections' = Append(connections, Connect("client", input))
    /\ UNCHANGED <<mainVars, clientVars, worker, closed, handshake>>

\* lines 150-160: accept() returns the oldest waiting connection
WorkerAccept ==
    /\ worker.st = "listening" /\ worker.running
    /\ worker.pc = "accept"
    /\ Current # 0
    /\ connections' = [connections EXCEPT ![Current].state = "accepted"]
    /\ worker' = [worker EXCEPT !.pc = "recv", !.data = NoData, !.request = NoRequest]
    /\ UNCHANGED <<mainVars, clientVars, closed, handshake>>

\* lines 161-167: one recv; an empty chunk or a chunk with a terminator ends
\* the loop
WorkerRecv ==
    /\ worker.pc = "recv"
    /\ LET c == connections[Current]
       IN IF c.chunks # <<>>
          THEN /\ worker' = [worker EXCEPT
                                !.data = @ \o Head(c.chunks),
                                !.pc = IF HasTerminator(Head(c.chunks)) THEN "serve" ELSE "recv"]
               /\ connections' = [connections EXCEPT ![Current].chunks = Tail(@)]
          ELSE /\ c.eof
               /\ worker' = [worker EXCEPT !.pc = "serve"]
               /\ UNCHANGED connections
    /\ UNCHANGED <<mainVars, clientVars, closed, handshake>>

\* lines 162, 203-204, 221-226: recv raises socket.timeout after 5 s without
\* a byte; the handler is `continue` and the connection is closed
WorkerRecvTimeout ==
    /\ worker.pc = "recv"
    /\ connections[Current].chunks = <<>> /\ ~connections[Current].eof
    /\ closed' = Closing(connections)
    /\ connections' = CloseClient(connections)
    /\ worker' = [worker EXCEPT !.pc = "accept"]
    /\ UNCHANGED <<mainVars, clientVars, handshake>>

\* lines 170-196: the empty-data reply, the invalid-JSON reply, or the
\* response of handle_request
WorkerServe ==
    /\ worker.pc = "serve"
    /\ LET parsed == json_loads(Strip(worker.data))
       IN IF worker.data = NoData
          THEN /\ closed' = Closing(Sent(connections, [error |-> "empty data received"]))
               /\ connections' = CloseClient(Sent(connections, [error |-> "empty data received"]))
               /\ worker' = [worker EXCEPT !.pc = "accept"]
          ELSE IF parsed = JSONDecodeError
          THEN /\ closed' = Closing(Sent(connections, [error |-> "invalid JSON data"]))
               /\ connections' = CloseClient(Sent(connections, [error |-> "invalid JSON data"]))
               /\ worker' = [worker EXCEPT !.pc = "accept"]
          ELSE /\ \E fails \in BOOLEAN :
                     connections' = Sent(connections, handle_request(parsed, "A", fails))
               /\ worker' = [worker EXCEPT !.pc = "sent", !.request = parsed]
               /\ UNCHANGED closed
    /\ UNCHANGED <<mainVars, clientVars, handshake>>

\* mutant: whatever the request was, the worker stops after it
StopsServer_any(req) == TRUE

\* line 199: request.get('action') == 'stop_server'
StopsServer(req) == Get(req, "action") = "stop_server"

\* lines 198-226: request.get at line 199 raises on a request that is no
\* dictionary and the handler of line 213 sends a second response; a
\* stop_server request ends the process (lines 95-105); the client is closed
WorkerFinish ==
    /\ worker.pc = "sent"
    /\ IF ~IsDict(worker.request)
       THEN /\ closed' = Closing(Sent(connections, [error |-> "object has no attribute get"]))
            /\ connections' = CloseClient(Sent(connections, [error |-> "object has no attribute get"]))
            /\ worker' = [worker EXCEPT !.pc = "accept"]
       ELSE IF StopsServer(worker.request)
       THEN /\ closed' = Closing(connections)
            /\ connections' = CloseClient(connections)
            /\ worker' = [worker EXCEPT !.pc = "accept", !.running = FALSE, !.st = "exited"]
       ELSE /\ closed' = Closing(connections)
            /\ connections' = CloseClient(connections)
            /\ worker' = [worker EXCEPT !.pc = "accept"]
    /\ UNCHANGED <<mainVars, clientVars, handshake>>

\* ------------------------------------------------- _wait_for_ida_server
\* line 187: the time is up, the function returns False (line 213)
WaitTimeout ==
    /\ handshake.pc = "loop"
    /\ handshake.tries >= MaxTries
    /\ handshake' = [handshake EXCEPT !.pc = "done", !.ret = "False"]
    /\ UNCHANGED <<mainVars, clientVars, worker, connections, closed>>

\* lines 187-194: connect_ex to the port, then close
WaitProbe ==
    /\ handshake.pc = "loop"
    /\ handshake.tries < MaxTries
    /\ IF CanConnect
       THEN /\ connections' = Append(connections,
                                     Connect("probe", [chunks |-> <<>>, eof |-> TRUE]))
            /\ handshake' = [handshake EXCEPT !.pc = "hello"]
       ELSE /\ handshake' = [handshake EXCEPT !.pc = "sleep"]
            /\ UNCHANGED connections
    /\ UNCHANGED <<mainVars, clientVars, worker, closed>>

\* line 197 and _send_ida_request, lines 121-132: connect and send hello
WaitHello ==
    /\ handshake.pc = "hello"
    /\ IF CanConnect
       THEN /\ connections' = Append(connections,
                                     Connect("hello", [chunks |-> <<HelloText>>, eof |-> FALSE]))
            /\ handshake' = [handshake EXCEPT !.pc = "await"]
       ELSE /\ handshake' = [handshake EXCEPT !.pc = "judge",
                                              !.test_response = send_ida_request(Refused)]
            /\ UNCHANGED connections
    /\ UNCHANGED <<mainVars, clientVars, worker, closed>>

\* the bytes _send_ida_request has read when the peer closes (lines 136-141)
ResponseData(c) ==
    IF c.got = <<>> THEN NoData
    ELSE IF Len(c.got) = 1 THEN c.got[1]
    ELSE c.got[1] \o c.got[2]

\* _send_ida_request, lines 136-156: the worker has closed the connection
WaitReceive ==
    /\ handshake.pc = "await"
    /\ \E i \in 1..Len(connections) :
          /\ connections[i].owner = "hello" /\ connections[i].state = "closed"
          /\ handshake' = [handshake EXCEPT
                              !.pc = "judge",
                              !.test_response =
                                  send_ida_request(Received(ResponseData(connections[i])))]
          /\ connections' = SelectSeq(connections, LAMBDA c : c.owner # "hello")
    /\ UNCHANGED <<mainVars, clientVars, worker, closed>>

\* _send_ida_request, lines 138-143 and 160-166: no byte within 10 s, or the
\* worker process is gone; the socket is closed on this side
WaitReceiveTimeout ==
    /\ handshake.pc = "await"
    /\ \E i \in 1..Len(connections) :
          /\ connections[i].owner = "hello" /\ connections[i].state # "closed"
          /\ connections' = [connections EXCEPT ![i].owner = "client"]
    /\ handshake' = [handshake EXCEPT !.pc = "judge",
                                       !.test_response = send_ida_request(TimedOut)]
    /\ UNCHANGED <<mainVars, clientVars, worker, closed>>

\* dict.get(key) is a true value
Truthy(obj, key) == IsDict(obj) /\ key \in DOMAIN obj /\ obj[key] = TRUE

\* line 198: test_response.get("success") and test_response.get("message") == "hi"
Ready(test_response) ==
    Truthy(test_response, "success") /\ Get(test_response, "message") = "hi"

\* lines 198-210: return True, or sleep and go round again
WaitJudge ==
    /\ handshake.pc = "judge"
    /\ IF Ready(handshake.test_response)
       THEN handshake' = [handshake EXCEPT !.pc = "done", !.ret = "True"]
       ELSE handshake' = [handshake EXCEPT !.pc = "sleep"]
    /\ UNCHANGED <<mainVars, clientVars, worker, connections, closed>>

\* line 210: time.sleep(retry_interval)
WaitSleep ==
    /\ handshake.pc = "sleep"
    /\ handshake' = [handshake EXCEPT !.pc = "loop", !.tries = @ + 1]
    /\ UNCHANGED <<mainVars, clientVars, worker, connections, closed>>

WorkerNext ==
    \/ WorkerStart
    \/ ClientConnect
    \/ WorkerAccept
    \/ WorkerRecv
    \/ WorkerRecvTimeout
    \/ WorkerServe
    \/ WorkerFinish
    \/ WaitTimeout
    \/ WaitProbe
    \/ WaitHello
    \/ WaitReceive
    \/ WaitReceiveTimeout
    \/ WaitJudge
    \/ WaitSleep

\* a worker process, the clients of its port and the readiness handshake
WorkerSpec == Init /\ [][WorkerNext]_vars

\* --------------------------------------------------- the client manager
\* IDAClientManager (ida_client_manager.py) run from its command line against
\* the accept loop of the control server (start_ida_server.py, lines
\* 407-463).  `control` is the control server process: whether it listens
\* (`running`), where its loop stands (`pc`), the connections waiting in the
\* queue of its listening socket (`backlog`) and the one it serves (`client`).
\* A connection is the bytes its client sent (`data`) and whether the client
\* still waits for the response (`live`).
Commands == {"start", "stop", "restart", "status"}
\* the methods of IDAServerManager
ServerManagerMethods ==
    {"_find_ida_path", "_is_port_in_use", "_wait_for_port_release", "_force_release_port",
     "_find_available_port", "_send_ida_request", "_get_process_for_binary",
     "_get_least_recently_used_process", "_wait_for_ida_server", "_ensure_binary_loaded",
     "stop_ida_server", "stop_all_servers", "handle_client_request", "start"}
HasAttr(name) == name \in ServerManagerMethods

\* a connect to the control port: it succeeds when the control server listens
\* and the queue of the listening socket (listen(1), line 424) has room;
\* otherwise it is refused or runs into the timeout of the client
ControlReachable == control.running /\ Len(control.backlog) < MaxQueued

\* _check_server_status, lines 36-46: connect_ex, close; what it leaves at
\* the control server is a connection on which nothing was sent
check_server_status == ControlReachable
Probed(ctl) ==
    IF ControlReachable
    THEN [ctl EXCEPT !.backlog = Append(@, [data |-> NoData, live |-> FALSE])]
    ELSE ctl

\* handle_client_request, lines 377-405, on an empty pool: stop_all_servers
\* finds nothing to stop
handle_client_request(req) ==
    IF ~IsDict(req) THEN [error |-> "request handling failed"]
    ELSE IF Get(req, "action") = "stop_server"
    THEN [success |-> TRUE, message |-> "all servers stopped"]
    ELSE IF Get(req, "binary_path") = NoPath THEN [error |-> "binary path not given"]
    ELSE [error |-> "cannot load the binary"]

\* main of start_ida_server.py: the control server is started from a shell
ControlStart ==
    /\ ~control.running
    /\ control' = ControlUp(control.port)
    /\ UNCHANGED <<mainVars, workerVars, client_manager>>

\* lines 478-480 and 455-462: KeyboardInterrupt or a kill ends the control
\* server; the connections it has not answered are reset
ControlInterrupt ==
    /\ control.running
    /\ control' = [ControlUp(control.port) EXCEPT !.running = FALSE]
    /\ client_manager' = IF client_manager.sock = "waiting"
                         THEN [client_manager EXCEPT !.sock = "reset"]
                         ELSE client_manager
    /\ UNCHANGED <<mainVars, workerVars>>

\* line 429: accept
ControlAccept ==
    /\ control.running
    /\ control.pc = "accept"
    /\ control.backlog # <<>>
    /\ control' = [control EXCEPT !.pc = "serve", !.client = Head(control.backlog),
                                  !.backlog = Tail(control.backlog)]
    /\ UNCHANGED <<mainVars, workerVars, client_manager>>

\* lines 432-453: recv, json.loads, handle_client_request, send, close.  The
\* loop goes on to the next accept whatever the request was: nothing of
\* handle_client_request clears self.running
ControlServe ==
    /\ control.running
    /\ control.pc = "serve"
    /\ LET c == control.client
           req == json_loads(c.data)
           resp == IF req = JSONDecodeError
                   THEN [error |-> "Expecting value"]
                   ELSE handle_client_request(req)
       IN /\ control' = [control EXCEPT !.pc = "accept", !.client = NoClient]
          /\ client_manager' = IF c.live
                               THEN [client_manager EXCEPT !.sock = "replied",
                                                           !.received = json_dumps(resp)]
                               ELSE client_manager
    /\ UNCHANGED <<mainVars, workerVars>>

\* main, lines 115-141: a command line is run by a fresh IDAClientManager
Command(c) ==
    /\ client_manager.pc = "idle"
    /\ client_manager' = [NewClientManager EXCEPT
                             !.command = c,
                             !.pc = CASE c = "start" -> "start_check"
                                      [] c = "status" -> "status_check"
                                      [] OTHER -> "stop_check"]
    /\ UNCHANGED <<mainVars, workerVars, control>>

\* lines 138-142: status
StatusCheck ==
    /\ client_manager.pc = "status_check"
    /\ client_manager' = [client_manager EXCEPT !.pc = "done", !.probe = check_server_status,
                                                !.ret = "None"]
    /\ control' = Probed(control)
    /\ UNCHANGED <<mainVars, workerVars>>

\* mutant: start records the server it found running as one it started
start_server_mark(self, healthy) ==
    [self EXCEPT !.pc = "done", !.probe = healthy, !.ret = "True", !.server_running = TRUE]

\* start_server, lines 48-72, and the handlers of main, lines 143-149: True
\* when the probe succeeds; otherwise line 61 calls a method IDAServerManager
\* does not have, and the AttributeError ends the command in main
start_server(self, healthy) ==
    IF healthy
    THEN [self EXCEPT !.pc = "done", !.probe = healthy, !.ret = "True"]
    ELSE IF HasAttr("start_server")
    THEN [self EXCEPT !.pc = "done", !.probe = healthy, !.ret = "False"]
    ELSE [self EXCEPT !.pc = IF self.server_running THEN "stop_check" ELSE "done",
                      !.command = IF self.server_running THEN "cleanup" ELSE @,
                      !.probe = healthy, !.ret = "AttributeError"]

StartCheck ==
    /\ client_manager.pc = "start_check"
    /\ client_manager' = start_server(client_manager, check_server_status)
    /\ control' = Probed(control)
    /\ UNCHANGED <<mainVars, workerVars>>

\* where a command goes when its stop_server has returned: restart_server
\* (lines 111-113) drops the value and sleeps before start_server
AfterStop(self, value) ==
    [self EXCEPT !.pc = IF self.command = "restart" THEN "between" ELSE "done",
                 !.ret = value, !.sock = "none"]

\* lines 93-106: the fallback.  IDAServerManager has no stop_server, the
\* AttributeError is caught at line 104 and stop_server returns False
Fallback(self) ==
    IF HasAttr("stop_server")
    THEN [self EXCEPT !.pc = "stop_recheck", !.sock = "none"]
    ELSE AfterStop(self, "False")

\* lines 76-78: stop_server returns True when the probe fails
StopCheck ==
    /\ client_manager.pc = "stop_check"
    /\ LET healthy == check_server_status
           self == [client_manager EXCEPT !.probe = healthy]
       IN client_manager' = IF healthy
                            THEN [self EXCEPT !.pc = "stop_send"]
                            ELSE AfterStop(self, "True")
    /\ control' = Probed(control)
    /\ UNCHANGED <<mainVars, workerVars>>

\* _send_request, lines 18-25: connect and send; a failed connect is the
\* except branch of lines 32-34, whose response has success False
StopSend ==
    /\ client_manager.pc = "stop_send"
    /\ IF ControlReachable
       THEN /\ client_manager' = [client_manager EXCEPT !.pc = "stop_recv", !.sock = "waiting"]
            /\ control' = [control EXCEPT
                              !.backlog = Append(@, [data |-> json_dumps([action |-> "stop_server"]),
                                                     live |-> TRUE])]
       ELSE /\ client_manager' =
                  Fallback([client_manager EXCEPT
                               !.response = [success |-> FALSE, error |-> "connection refused"]])
            /\ UNCHANGED control
    /\ UNCHANGED <<mainVars, workerVars>>

\* _send_request, lines 28-31, and stop_server, lines 84-90: the response is
\* read; when it says success, the probe after the sleep decides
StopReceive ==
    /\ client_manager.pc = "stop_recv"
    /\ client_manager.sock = "replied"
    /\ LET parsed == json_loads(client_manager.received)
           resp == IF parsed = JSONDecodeError
                   THEN [success |-> FALSE, error |-> "Expecting value"]
                   ELSE parsed
           self == [client_manager EXCEPT !.response = resp, !.sock = "none"]
       IN client_manager' = IF Truthy(resp, "success")
                            THEN [self EXCEPT !.pc = "stop_wait"]
                            ELSE Fallback(self)
    /\ UNCHANGED <<mainVars, workerVars, control>>

\* _send_request, lines 28 and 32-34: recv times out after 5 s, or fails on a
\* reset connection; the connection is given up
Abandoned(c) == [c EXCEPT !.live = FALSE]
StopReceiveFail ==
    /\ client_manager.pc = "stop_recv"
    /\ client_manager.sock \in {"waiting", "reset"}
    /\ client_manager' =
          Fallback([client_manager EXCEPT
                       !.response = [success |-> FALSE,
                                     error |-> IF client_manager.sock = "reset"
                                               THEN "connection reset" ELSE "timed out"]])
    /\ control' = [control EXCEPT
                      !.backlog = [i \in 1..Len(@) |-> Abandoned(@[i])],
                      !.client = Abandoned(@)]
    /\ UNCHANGED <<mainVars, workerVars>>

\* lines 85-102: after each sleep, True when the probe fails; when it succeeds,
\* the fallback after the first sleep and False after the second
StopWait ==
    /\ client_manager.pc \in {"stop_wait", "stop_recheck"}
    /\ LET healthy == check_server_status
           self == [client_manager EXCEPT !.probe = healthy]
       IN client_manager' = IF ~healthy
                            THEN AfterStop([self EXCEPT !.server_running = FALSE], "True")
                            ELSE IF self.pc = "stop_wait" THEN Fallback(self)
                            ELSE AfterStop(self, "False")
    /\ control' = Probed(control)
    /\ UNCHANGED <<mainVars, workerVars>>

\* lines 112-113: restart_server sleeps, then calls start_server
RestartSleep ==
    /\ client_manager.pc = "between"
    /\ client_manager' = [client_manager EXCEPT !.pc = "start_check"]
    /\ UNCHANGED <<mainVars, workerVars, control>>

\* the command line has run; the next one starts from a new process
Exit ==
    /\ client_manager.pc = "done"
    /\ client_manager' = NewClientManager
    /\ UNCHANGED <<mainVars, workerVars, control>>

ClientNext ==
    \/ ControlStart
    \/ ControlInterrupt
    \/ ControlAccept
    \/ ControlServe
    \/ \E c \in Commands : Command(c)
    \/ StatusCheck
    \/ StartCheck
    \/ StopCheck
    \/ StopSend
    \/ StopReceive
    \/ StopReceiveFail
    \/ StopWait
    \/ RestartSleep
    \/ Exit

\* the command line of the client manager and the control server it talks to
ClientSpec == Init /\ [][ClientNext]_vars

\* ----------------------------------------------------------------- claims
\* the worker ports the configuration gives to max_processes workers
ConfiguredRange == IDA_SERVER_START_PORT .. (IDA_SERVER_START_PORT + max_processes - 1)

C2_SequentialFill ==
    \A t \in Threads :
        (~disturbed /\ pc[t] = "respond" /\ result[t] # None)
        => /\ Len(ida_processes) = Len(os_procs)
           /\ Cardinality(PoolPorts) = Len(ida_processes)
           /\ PoolPorts \subseteq ConfiguredRange
           /\ \A i, j \in 1..Len(ida_processes) :
                 ida_processes[i].binary_path = ida_processes[j].binary_path => i = j
           /\ DOMAIN reserved_ports = {}

C2_Witness ==
    \E t \in Threads : ~disturbed /\ pc[t] = "respond" /\ result[t] # None
                       /\ Len(ida_processes) = max_processes
                       /\ entryAtStart[t] = None

\* C3: once a call at capacity has chosen the least recently used worker as its
\* victim, that worker is evicted (its entry leaves the pool).
C3_EvictionHappens ==
    \A t \in Threads :
        (pc[t] = "stop_acquire" /\ ret[t] = "evict") ~> (stop_port[t] \notin PoolPorts)

\* C4: no call waits for the pool lock while the lock is held by the very
\* thread that makes the call (such a wait never ends).
C4_NoCallBlocksOnOwnLock ==
    \A t \in Threads : ~(pc[t] = "stop_acquire" /\ lock = t)

\* C5: the pool never has more than max_processes entries, active and reserved
\* ports lie in the configured range, and active plus reserved ports never
\* outnumber max_processes.
C5_Capacity ==
    /\ Len(ida_processes) <= max_processes
    /\ (PoolPorts \cup DOMAIN reserved_ports) \subseteq ConfiguredRange
    /\ Cardinality(PoolPorts \cup DOMAIN reserved_ports) <= max_processes

C5_Witness ==
    \E t \in Threads : Len(ida_processes) = max_processes /\ pc[t] = "scan"
                       /\ scan_i[t] > max_processes

\* C6: no port is a key of reserved_ports and of ida_processes at once.
C6_PortExclusive == PoolPorts \cap DOMAIN reserved_ports = {}

C6_Witness ==
    \E t \in Threads : pc[t] = "stop_all" /\ stop_port[t] \in PoolPorts
                       /\ DOMAIN reserved_ports # {}

\* C7: no two pool entries are bound to the same target, and no two are stored
\* under the same port.
C7_TargetUnique ==
    \A i, j \in 1..Len(ida_processes) :
        (ida_processes[i].binary_path = ida_processes[j].binary_path
            \/ ida_processes[i].port = ida_processes[j].port) => i = j

C7_Witness ==
    \E t \in Threads : pc[t] = "respond" /\ entryAtStart[t] # None
                       /\ Len(ida_processes) = max_processes /\ disturbed

\* C8: when stop_ida_server has returned for a port that had a pool entry, the
\* entry is gone from the pool.
C8_TerminateRemovesEntry ==
    \A t \in Threads :
        (pc[t] = "stop_all" /\ stop_port[t] # NoPort) => stop_port[t] \notin PoolPorts

\* C9: one client request launches a second process only after a rename of the
\* database, and, unless the database reappears after the rename, renames once
\* and launches at most two processes.
C9_NoSecondRetry ==
    \A t \in Threads :
        /\ launches[t] <= renames[t] + 1
        /\ ~recreated[t] => (renames[t] <= 1 /\ launches[t] <= 2)

C9_Witness ==
    \E t \in Threads : pc[t] = "respond" /\ launches[t] = 2 /\ renames[t] = 1
                       /\ ~recreated[t] /\ result[t] = None

\* C10: every port reserve() has returned was probed free at the OS level in
\* that call, and no two live worker processes are assigned the same port.
C10_ReuseAfterOsCheck ==
    /\ \A t \in Threads : port[t] # NoPort => obsFree[t]
    /\ \A p, q \in 1..Len(os_procs) :
          (Alive(p) /\ Alive(q) /\ os_procs[p].port = os_procs[q].port) => p = q

C10_Witness ==
    \E t \in Threads : pc[t] = "launch" /\ port[t] \in released /\ obsFree[t]

\* a call of _ensure_binary_loaded whose scan has passed every port of the
\* range with the pool below capacity, or which has returned from such a scan.
\* The call is the first one of the request, or the one made at line 290 after
\* a rename: every port reserved for the request before it was followed by a
\* rename, and so was every process launched for it.
Exhausted(t) ==
    \/ /\ pc[t] = "scan"
       /\ scan_i[t] > Len(get_ida_server_ports(max_processes))
       /\ Len(ida_processes) < max_processes
    \/ /\ pc[t] \in {"respond", "reply"}
       /\ request[t].action # "stop_server"
       /\ request[t].binary_path # NoPath
       /\ entryAtStart[t] = None
       /\ reservations[t] = renames[t]

\* C11: when the scan finds every port of the range reserved, active or bound
\* and the pool is below max_processes, reserve() returns no port, the call
\* returns failure, it launches no process, no worker is chosen for eviction
\* (eviction is chosen only at capacity), the pool is as it was when the
\* request was read, the pool lock is free again and the client gets an error
\* response, after which the server reads the next request.
C11_PortExhausted ==
    \A t \in Threads :
        /\ ret[t] = "evict" => Len(ida_processes) >= max_processes
        /\ Exhausted(t) =>
              /\ reservations[t] = renames[t]
              /\ launches[t] = renames[t]
              /\ stop_port[t] = NoPort
              /\ ida_processes = poolAtStart[t]
              /\ pc[t] \in {"respond", "reply"} => (result[t] = None /\ lock = NoThread)
              /\ pc[t] = "reply" => response[t] = [error |-> "cannot load the binary"]

C11_Witness ==
    \E t \in Threads : pc[t] = "reply" /\ Exhausted(t) /\ Len(ida_processes) = 1
                       /\ extBound # {} /\ renames[t] = 0
                       /\ "error" \in DOMAIN response[t]

\* C12: every response the control server sends to a client is a JSON object
\* with a boolean success field.
C12_ResponseHasSuccess ==
    \A t \in Threads :
        pc[t] = "reply" => ("success" \in DOMAIN response[t]
                            /\ response[t].success \in BOOLEAN)

\* a response says success: true, or it has a non-empty error string
Populated(r) ==
    \/ "success" \in DOMAIN r /\ r.success = TRUE
    \/ "error" \in DOMAIN r /\ r.error # ""

\* C13: every response the control server sends, and every response a worker
\* gave to a request forwarded to it, says success: true or carries a
\* non-empty error string.
C13_ErrorPopulated ==
    \A t \in Threads :
        /\ pc[t] = "reply" => Populated(response[t])
        /\ forwarded[t].pid # NoProc => Populated(forwarded[t].reply)

C13_Witness ==
    \E t \in Threads : pc[t] = "reply" /\ forwarded[t].pid # NoProc
                       /\ "error" \in DOMAIN forwarded[t].reply
                       /\ response[t] = forwarded[t].reply

\* C14: a connection-level failure of the exchange with a worker (refused
\* connection, receive timeout, empty or malformed reply) comes back from the
\* dispatcher as the envelope {success: false, error: <kind>}.
C14_FailureEnvelope ==
    \A t \in Threads :
        (pc[t] = "reply" /\ forwarded[t].failure # "none")
        => /\ "success" \in DOMAIN response[t] /\ response[t].success = FALSE
           /\ "error" \in DOMAIN response[t] /\ response[t].error # ""

\* C15: a get_functions or decompile_function request whose target has a pool
\* entry with a serving worker goes, as the client sent it, to the port of that
\* entry, where the process of that entry, which analyses that target, reads
\* it; the client gets the response of that worker as the worker built it.
C15_ForwardVerbatim ==
    \A t \in Threads :
        (pc[t] = "reply" /\ request[t].action \in {"decompile_function", "get_functions"}
            /\ forwarded[t].pid # NoProc)
        => /\ \E i \in 1..Len(ida_processes) :
                 /\ ida_processes[i].binary_path = request[t].binary_path
                 /\ ida_processes[i].port = forwarded[t].port
                 /\ ida_processes[i].process = forwarded[t].pid
           /\ forwarded[t].target = request[t].binary_path
           /\ forwarded[t].request = request[t]
           /\ response[t] = forwarded[t].reply

C15_Witness ==
    \E t \in Threads : pc[t] = "reply" /\ forwarded[t].pid # NoProc
                       /\ Len(ida_processes) = max_processes
                       /\ forwarded[t].port = ida_processes[max_processes].port
                       /\ response[t] = [success |-> TRUE,
                                          functions |-> request[t].binary_path]

\* C16: when the control server answers stop_server with success: true, the
\* pool is empty.
C16_StopServerEmptiesPool ==
    \A t \in Threads :
        (pc[t] = "reply" /\ request[t].action = "stop_server"
            /\ "success" \in DOMAIN response[t] /\ response[t].success = TRUE)
        => ida_processes = <<>>

HiResponse == [success |-> TRUE, message |-> "hi"]

\* the bytes read from a connection are a hello request
IsHello(data) == Get(json_loads(Strip(data)), "action") = "hello"

\* C19: a worker that accepts connections answers a hello request with exactly
\* {success: true, message: "hi"} and goes on serving; _wait_for_ida_server
\* returns True only on that answer, received in a round begun before the
\* timeout, and never goes round again or returns False once it has it.
C19_HelloReady ==
    /\ (closed.owner # "nobody" /\ IsHello(closed.data))
          => /\ closed.got = <<json_dumps(HiResponse)>>
             /\ worker.running /\ worker.st = "listening"
    /\ handshake.ret = "True"
          => (handshake.test_response = HiResponse /\ handshake.tries < MaxTries)
    /\ handshake.test_response = HiResponse
          => (handshake.pc \in {"judge", "done"} /\ handshake.ret # "False")

C19_Witness ==
    /\ handshake.ret = "True" /\ handshake.tries > 0
    /\ handshake.test_response = HiResponse
    /\ worker.running

\* C20: on every connection from which request bytes were read, the server
\* has sent exactly one response when it closes the connection.
C20_OneResponse ==
    (closed.owner # "nobody" /\ closed.data # NoData) => Len(closed.got) = 1

\* C17: when the connect probe of start finds the control port reachable,
\* start returns True, no process is launched or ended, and the state of the
\* manager (server_running) stays as it was.
C17_StartNoOp ==
    [][(/\ client_manager.pc = "start_check"
        /\ client_manager'.pc # "start_check"
        /\ ControlReachable)
          => /\ client_manager'.pc = "done"
             /\ client_manager'.ret = "True"
             /\ client_manager'.server_running = client_manager.server_running
             /\ control'.running = control.running
             /\ os_procs' = os_procs
             /\ ida_processes' = ida_processes]_vars

\* a start command has returned True after its probe found the control server
C17_Witness ==
    /\ client_manager.pc = "done"
    /\ client_manager.command \in {"start", "restart"}
    /\ client_manager.probe
    /\ client_manager.ret = "True"
    /\ control.running

\* C18: a stop that found the control server reachable leaves the control
\* port unreachable when it returns.
C18_StopMakesUnreachable ==
    [][(/\ client_manager.pc \in {"stop_send", "stop_recv", "stop_wait"}
        /\ client_manager'.pc \in {"between", "done"})
          => ~ControlReachable']_vars

\* C21: while the control server is bound to its port, reserve() never
\* returns that port and no worker process is launched with it.
C21_ControlPortApart ==
    control.running =>
        /\ \A t \in Threads : port[t] # control.port
        /\ \A pid \in 1..Len(os_procs) : os_procs[pid].port # control.port

\* C22: when the first attempt of a call reserved a port, its handshake failed
\* and the database was renamed aside, the retry reserves a port and reaches
\* the launch of a second process: a call that renamed the database once has
\* reserved two ports by the time it returns.
C22_RetryReachesSpawn ==
    \A t \in Threads :
        (pc[t] \in {"respond", "reply"} /\ renames[t] = 1 /\ ~recreated[t])
        => reservations[t] = 2

\* C23: when _ensure_binary_loaded returns failure after it reserved ports,
\* every process the call launched has been ended, none of the ports the call
\* reserved is left in reserved_ports, and the pool is what it was when the
\* request was read.
C23_CleanupOnFailure ==
    \A t \in Threads :
        (pc[t] = "respond" /\ reservations[t] >= 1 /\ result[t] = None)
        => /\ callPorts[t] \cap DOMAIN reserved_ports = {}
           /\ \A pid \in (Len(os_procs) - launches[t] + 1)..Len(os_procs) :
                 os_procs[pid].st = "dead"
           /\ ida_processes = poolAtStart[t]

\* what ends a process without asking it
ForcedKill == {"SIGKILL", "taskkill /F"}

\* C25: stop_ida_server sends stop_server first, and a forced kill is sent
\* only after a terminate signal was sent.
C25_EscalationOrder ==
    \A t \in Threads :
        LET s == signals[t]
        IN /\ s # <<>> => s[1] = "stop_server"
           /\ \A i \in 1..Len(s) :
                 s[i] \in ForcedKill => \E j \in 1..(i - 1) : s[j] = "SIGTERM"

\* C24: the handshake of a startup succeeds only while a worker on its port
\* answers hello, and a process enters the pool only in the step, taken from
\* the handshake's success with the lock free, that also takes its port out of
\* reserved_ports.
C24_ReadinessGating ==
    [][/\ \A t \in Threads :
             (pc[t] = "probe" /\ pc'[t] = "promote")
             => \E pid \in 1..Len(os_procs) :
                   os_procs[pid].port = port[t] /\ os_procs[pid].st = "listening"
       /\ \A i \in 1..Len(ida_processes') :
             (\A j \in 1..Len(ida_processes) :
                 ida_processes[j].process # ida_processes'[i].process)
             => \E t \in Threads :
                   /\ pc[t] = "promote"
                   /\ ida_processes'[i].port = port[t]
                   /\ ida_processes'[i].process = process[t].pid
                   /\ lock = NoThread /\ lock' = NoThread
                   /\ port[t] \notin DOMAIN reserved_ports'
      ]_vars

\* a worker was promoted by a call whose first worker failed its handshake
C24_Witness ==
    \E t \in Threads :
        /\ pc[t] = "respond" /\ launches[t] = 2 /\ result[t] # None
        /\ EntryAt(result[t].port) # 0
        /\ result[t].port \notin DOMAIN reserved_ports

\* the next step of thread t connects to a port, sleeps or polls, or starts or
\* ends a process: the probe of line 103, Popen (line 265), the handshake
\* (line 276), terminate/wait/kill (lines 283-299), and in stop_ida_server the
\* request and sleep (lines 339-343), the signals (lines 346-356), the wait for
\* the port (lines 359-361) and _force_release_port (line 369)
SlowStep(t) ==
    \/ /\ pc[t] = "scan"
       /\ scan_i[t] <= Len(get_ida_server_ports(max_processes))
       /\ get_ida_server_ports(max_processes)[scan_i[t]]
             \notin (PoolPorts \cup DOMAIN reserved_ports)
    \/ pc[t] \in {"launch", "probe", "quarantine", "kill_failed"}
    \/ pc[t] \in {"stop_graceful", "stop_escalate", "stop_release", "stop_error"}

\* C26: a thread that holds the lock performs no network call, no sleep or
\* polling wait, and starts or ends no process.
C26_LockDiscipline == \A t \in Threads : lock = t => ~SlowStep(t)

\* C27: while a call is launching its process or waiting for the handshake it
\* does not hold the lock: another call that is about to reserve finds the
\* lock free, and one that is scanning holds it.
C27_NoStarvation ==
    \A t1, t2 \in Callers :
        (t1 # t2 /\ pc[t1] \in {"launch", "probe"})
        => /\ lock # t1
           /\ pc[t2] = "reserve" => lock = NoThread
           /\ pc[t2] = "scan" => lock = t2

\* one call waits for its handshake while the other, for another target, has
\* reserved a port of its own and is about to launch
C27_Witness ==
    \E t1, t2 \in Callers :
        /\ t1 # t2 /\ pc[t1] = "probe" /\ pc[t2] = "launch"
        /\ request[t1].binary_path # request[t2].binary_path
        /\ port[t1] # port[t2]
        /\ {port[t1], port[t2]} \subseteq DOMAIN reserved_ports

\* C28: a call for a target that no pool entry is bound to goes on to reserve
\* whatever other calls are in flight; the port its scan returns is neither
\* reserved nor in the pool, so two calls that hold reservations hold different
\* ports; and a promotion stores its entry whatever the pool holds for that
\* target: the entries already there stay.
C28_NotDeduplicated ==
    [][\A t \in Callers :
          /\ (pc[t] = "ensure_check" /\ get_process_for_binary(request[t].binary_path) = 0
              /\ (binExists[request[t].binary_path] \/ idbExists[request[t].binary_path])
              /\ pc'[t] # pc[t])
             => pc'[t] = "reserve"
          /\ (pc[t] = "scan" /\ pc'[t] = "launch")
             => port'[t] \notin (PoolPorts \cup DOMAIN reserved_ports)
          /\ (pc[t] = "promote" /\ pc'[t] = "respond")
             => /\ \E i \in 1..Len(ida_processes') :
                      /\ ida_processes'[i].port = port[t]
                      /\ ida_processes'[i].process = process[t].pid
                      /\ ida_processes'[i].binary_path = request[t].binary_path
                /\ \A j \in 1..Len(ida_processes) :
                      ida_processes[j].port # port[t]
                      => \E i \in 1..Len(ida_processes') :
                            ida_processes'[i] = ida_processes[j]
      ]_vars

\* two pool entries are bound to one target
C28_Witness ==
    \E i, j \in 1..Len(ida_processes) :
        /\ i # j
        /\ ida_processes[i].binary_path = ida_processes[j].binary_path
        /\ ida_processes[i].port # ida_processes[j].port
        /\ ida_processes[i].process # ida_processes[j].process

\* C29: two startups in flight never hold the same reserved port while their
\* reservations are unexpired (no reservation is older than 60 seconds here:
\* the calls overlap within the life of a reservation).
C29_ReservationTTL ==
    \A t1, t2 \in Callers :
        (/\ t1 # t2
         /\ pc[t1] \in {"launch", "probe", "promote"}
         /\ pc[t2] \in {"launch", "probe", "promote"}
         /\ \A q \in DOMAIN reserved_ports : now - reserved_ports[q] <= RESERVATION_TTL)
        => port[t1] # port[t2]

C31_EvictOnlyAtCapacity ==
    [][\A t \in Threads :
          /\ (pc[t] = "scan" /\ pc'[t] = "stop_acquire")
             => /\ Len(ida_processes) >= max_processes
                /\ ret'[t] = "evict"
                /\ stop_port'[t] \in PoolPorts
          /\ (/\ pc[t] \in {"reserve", "scan"}
              /\ Len(ida_processes) < max_processes
              /\ (pc'[t] # pc[t] \/ scan_i'[t] # scan_i[t]))
             => /\ pc'[t] \in {"scan", "launch", "respond"}
                /\ ida_processes' = ida_processes
                /\ os_procs' = os_procs
                /\ pc'[t] = "launch"
                   => /\ port'[t] \notin (PoolPorts \cup DOMAIN reserved_ports)
                      /\ ~PortHeld(port'[t])
                /\ pc'[t] = "respond" => result'[t] = None
      ]_vars

\* the scan found no port with the pool full and has picked its victim
C31_Witness ==
    \E t \in Threads :
        /\ pc[t] = "stop_acquire" /\ ret[t] = "evict"
        /\ Len(ida_processes) = max_processes
        /\ stop_port[t] = ida_processes[get_least_recently_used_process].port

C33_CooperativeShutdown ==
    /\ (~control.running) ~> (control.pc = "closed")
    /\ [][/\ (control.pc # "finally" /\ control'.pc = "finally")
             => /\ pc'["srv"] = "stop_all"
                /\ {stop_ports'["srv"][i] : i \in 1..Len(stop_ports'["srv"])} = PoolPorts
          /\ control'.pc = "closed" => control.pc \in {"finally", "closed"}
      ]_vars

\* the worker's response to stop_server (handle_request, line 127)
StopReply == [success |-> TRUE, message |-> "stopping server"]

\* C34: the worker's running flag is cleared only by the step that follows the
\* sending of {success: true} to a stop_server request, and that step ends the
\* worker; once it has ended the worker has no connection in service, accepts
\* none and takes none in.
C34_ReplyBeforeStop ==
    /\ [](worker.st = "exited"
            => /\ ~worker.running
               /\ closed.got = <<json_dumps(StopReply)>>
               /\ \A i \in 1..Len(connections) : connections[i].state # "accepted")
    /\ [][/\ (worker.running /\ ~worker'.running)
             => /\ worker.pc = "sent"
                /\ Get(worker.request, "action") = "stop_server"
                /\ connections[Current].got = <<json_dumps(StopReply)>>
                /\ worker'.st = "exited"
          /\ worker.st = "exited"
             => /\ worker' = worker
                /\ Len(connections') <= Len(connections)
                /\ \A i \in 1..Len(connections') : connections'[i].state # "accepted"
      ]_vars

\* the worker has ended on a stop_server request while another connection
\* was waiting in the queue of its listening socket
C34_Witness ==
    /\ worker.st = "exited" /\ ~worker.running
    /\ closed.got = <<json_dumps(StopReply)>>
    /\ \E i \in 1..Len(connections) : connections[i].state = "queued"

\* a request handle_client_request answers with an error because of what it
\* is: it names no binary, or its action is not one of the three
Rejected(req) ==
    /\ req.action # "stop_server"
    /\ \/ req.binary_path = NoPath
       \/ req.action \notin {"decompile_function", "get_functions"}

\* C35: when a rejected request has been answered, the answer is an error, the
\* handling reserved no port and launched no process, and the pool is what it
\* was when the request was read.
C35_RejectedNoEffect ==
    \A t \in Threads :
        (pc[t] = "reply" /\ request[t] # NoRequest /\ Rejected(request[t]))
        => /\ DOMAIN response[t] = {"error"}
           /\ reservations[t] = 0
           /\ launches[t] = 0
           /\ ida_processes = poolAtStart[t]

\* C36: the entry the fast path of _ensure_binary_loaded returns has a process
\* that is running at that moment, and the fast path is not taken for a target
\* whose only entry has a process that has exited.
C36_FastPathLive ==
    [][\A t \in Threads :
          (pc[t] = "ensure_check" /\ pc'[t] = "respond" /\ result'[t] # None)
          => Alive(result'[t].process)
      ]_vars

\* a connection whose bytes are no JSON text (none at all included) or are a
\* JSON text that is no object: json.loads raises at line 433, or request.get
\* raises at line 380
Failing(c) ==
    \/ json_loads(c.data) = JSONDecodeError
    \/ ~IsDict(json_loads(c.data))

\* C37: for a connection that delivers nothing, bytes that are no JSON, or a
\* request whose handling raises, every step of the accept loop leaves
\* self.running, the pool, the reservations and the worker processes as they
\* were: the loop builds an error object, sends it, closes the connection and
\* stands in accept again with the connections that wait.
C37_SurvivesBadRequest ==
    [][(/\ control.pc \in {"recv", "handle"}
        /\ Failing(control.client)
        /\ (pc'["srv"] # pc["srv"] \/ control'.pc # control.pc))
       => /\ control'.running = control.running
          /\ ida_processes' = ida_processes
          /\ reserved_ports' = reserved_ports
          /\ os_procs' = os_procs
          /\ control.pc = "recv"
             => /\ control'.pc = "handle" /\ pc'["srv"] = "reply"
                /\ DOMAIN response'["srv"] = {"error"}
                /\ control'.client = control.client
          /\ (control.pc = "handle" /\ pc["srv"] = "reply")
             => /\ pc'["srv"] = "idle" /\ control'.pc = "handle"
                /\ DOMAIN response["srv"] = {"error"}
          /\ (control.pc = "handle" /\ pc["srv"] = "idle")
             => /\ control'.pc = "accept" /\ control'.client = NoClient
                /\ control'.backlog = control.backlog
      ]_vars

\* the error object for bytes that are no JSON is about to be sent; the flag
\* is set, a worker is in the pool and another connection waits
C37_Witness ==
    /\ control.pc = "handle" /\ pc["srv"] = "reply"
    /\ control.client.data = Garbage
    /\ DOMAIN response["srv"] = {"error"}
    /\ control.running
    /\ ida_processes # <<>>
    /\ control.backlog # <<>>

====
